---- MODULE Spec2Model ----
(***************************************************************************)
(* Yosemite Valley Lodge availability checker (src/yosemite_checker.py).   *)
(*                                                                         *)
(* The specifications of this module share its variables:                  *)
(*   Spec             the scheduler, run_availability_checker, with the    *)
(*                    retry loop of run_check and one probing pass per     *)
(*                    attempt;                                             *)
(*   SpecPass         one check_availability pass of either checker class  *)
(*                    over the dates of get_weekend_dates;                 *)
(*   SpecClassify     the availability decision each checker class takes   *)
(*                    on one fetched page;                                 *)
(*   SpecConsecutive  find_consecutive_days on a sorted list of dates;     *)
(*   SpecStore        save_results and load_last_results on the result     *)
(*                    file;                                                *)
(*   SpecTimer        calculate_next_check_time;                           *)
(*   SpecMain         main with --date or --test-email, and                *)
(*                    check_specific_date;                                 *)
(*   SpecMail         one call of send_email_notification;                 *)
(*   SpecConfig       load_config and the notifier on DEFAULT_CONFIG.      *)
(*                                                                         *)
(* A date is the number of a day; day 0 is a Monday, so that d % 7 is      *)
(* Python's date.weekday() (0 = Monday ... 6 = Sunday).                    *)
(***************************************************************************)
EXTENDS Integers, Sequences, FiniteSets, TLC

VARIABLES
    today,                      \* datetime.date.today()
    config,                     \* the dict returned by load_config
    single_run,                 \* run_availability_checker's argument
    pc,                         \* where run_availability_checker stands
    retries,                    \* run_check's local
    available_dates,            \* run_availability_checker's locals
    consecutive_pairs,
    previous_available_dates,
    previous_consecutive_pairs,
    new_dates,
    new_consecutive,
    last_results,               \* the file last_results.json
    attempts,                   \* history: check_availability calls of the run_check
    slept,                      \* history: the time.sleep calls since the cycle began
    handed,                     \* history: send_email_notification calls of this cycle
    run_outcome,                \* history: how this cycle's run_check ended
    browser,                    \* the Selenium checker's self.browser: "None" or "held"
    pass_in,                    \* SpecPass: what the site and the machine do during the pass
    pass_out,                   \* SpecPass: what check_availability did
    page,                       \* SpecClassify: the fetched page
    verdict,                    \* SpecClassify: the decision of each checker class
    file,                       \* SpecStore: the content of last_results.json
    next_check,                 \* SpecTimer: calculate_next_check_time's result, 0 before
    main_in,                    \* SpecMain: the command line and what main finds
    main_out,                   \* SpecMain: what main did
    mail_in,                    \* SpecMail: the arguments and what the servers do
    mail_out,                   \* SpecMail: what send_email_notification did
    DEFAULT_CONFIG,             \* SpecConfig: the module's dict of defaults
    config_json                 \* SpecConfig: the file at config_path

vars == <<today, config, single_run, pc, retries, available_dates,
          consecutive_pairs, previous_available_dates,
          previous_consecutive_pairs, new_dates, new_consecutive,
          last_results, attempts, slept, handed, run_outcome, browser,
          pass_in, pass_out, page, verdict, file, next_check, main_in,
          main_out, mail_in, mail_out, DEFAULT_CONFIG, config_json>>

schedVars == <<single_run, pc, retries, available_dates, consecutive_pairs,
               previous_available_dates, previous_consecutive_pairs,
               new_dates, new_consecutive, last_results, attempts, slept,
               handed, run_outcome, browser>>

classVars == <<page, verdict>>

passVars == <<pass_in, pass_out>>

\* what only the specifications of single functions use
mainVars == <<main_in, main_out>>

mailVars == <<mail_in, mail_out>>

confVars == <<DEFAULT_CONFIG, config_json>>

envVars == <<file, next_check, mainVars, mailVars, confVars>>

(***************************************************************************)
(* Bounds of the model.                                                    *)
(***************************************************************************)
\* months_ahead ranges over 0..MaxMonths
MaxMonths == 1
\* the site answers with a page of its own for the first MaxSite probed dates
MaxSite == 2
\* an exception escapes the per-date handler in iteration 1..MaxAbort, or never
MaxAbort == 1
\* max_retries ranges over 0..MaxRetries
MaxRetries == 3
\* a page shows at most MaxTokens texts and MaxElems elements of interest
MaxTokens == 2
MaxElems == 1
\* find_consecutive_days gets lists of at most MaxDates dates of 0..MaxDate
MaxDate == 13
MaxDates == 3
\* save_results gets lists of at most MaxPairs pairs
MaxPairs == 1
\* check_interval_hours ranges over 0..MaxHours
MaxHours == 4
\* the text of --date has up to MaxFields texts between its '-'
MaxFields == 3
\* random.random() is one of 0, 1/RandomSteps, ..., 1
RandomSteps == 8

(***************************************************************************)
(* Program constants.                                                      *)
(***************************************************************************)
DaysPerMonth == 30
FRIDAY == 4
SATURDAY == 5
SUNDAY == 6
DefaultMaxRetries == 3
DefaultRetryDelay == 60
MinInterval == 1800
ErrorCooldown == 900

weekday(d) == d % 7

SeqToSet(s) == {s[k] : k \in 1..Len(s)}

\* the subsets of S with at most n elements
SubsetsUpTo(S, n) == {T \in SUBSET S : Cardinality(T) <= n}

\* every enumeration of a finite set as a list: what list(a_set) may return
RECURSIVE Perms(_)
Perms(S) ==
    IF S = {} THEN {<<>>}
    ELSE UNION {{<<x>> \o p : p \in Perms(S \ {x})} : x \in S}

(***************************************************************************)
(* get_weekend_dates: the while loop from today to today + 30 * months.    *)
(***************************************************************************)
RECURSIVE WeekendLoop(_, _, _)
WeekendLoop(current, end_date, weekend_dates) ==
    IF current <= end_date
    THEN WeekendLoop(current + 1, end_date,
                     IF weekday(current) \in {FRIDAY, SATURDAY, SUNDAY}
                     THEN Append(weekend_dates, current)
                     ELSE weekend_dates)
    ELSE weekend_dates

get_weekend_dates_exclusive(day, months_ahead) ==
    WeekendLoop(day, day + DaysPerMonth * months_ahead - 1, <<>>)

get_weekend_dates(day, months_ahead) ==
    WeekendLoop(day, day + DaysPerMonth * months_ahead, <<>>)

(***************************************************************************)
(* find_consecutive_days: position-adjacent dates one day apart that are   *)
(* Friday-Saturday or Saturday-Sunday.                                     *)
(***************************************************************************)
RECURSIVE ConsecutiveLoop(_, _, _)
ConsecutiveLoop(dates, k, pairs) ==
    IF k > Len(dates) - 1 THEN pairs
    ELSE LET date1 == dates[k]
             date2 == dates[k + 1]
         IN ConsecutiveLoop(dates, k + 1,
                IF /\ date2 - date1 = 1
                   /\ \/ weekday(date1) = FRIDAY /\ weekday(date2) = SATURDAY
                      \/ weekday(date1) = SATURDAY /\ weekday(date2) = SUNDAY
                THEN Append(pairs, <<date1, date2>>)
                ELSE pairs)

find_consecutive_days_from_second(dates) == ConsecutiveLoop(dates, 2, <<>>)

find_consecutive_days(dates) == ConsecutiveLoop(dates, 1, <<>>)

(***************************************************************************)
(* A fetched page.  text: the texts the page shows (each the text of one   *)
(* element); elems: the elements with a tag, class or string a checker     *)
(* looks for; url: browser.current_url after the search; title: the page   *)
(* title; price_lookup_fails: the find_elements calls for the price raise. *)
(***************************************************************************)
ErrorTexts ==
    {"Action Not Allowed", "Access Denied", "Server Error",
     "Currently Unavailable", "403 Forbidden"}

NoAvailabilityTexts ==
    {"No availability for your selected dates", "Sold Out"}

PriceTexts == {"$249 average/night", "$199"}

FormTexts == {"Search Results", "Check Availability"}

Texts == ErrorTexts \cup NoAvailabilityTexts \cup PriceTexts \cup FormTexts

Titles == {"Yosemite Valley Lodge", "Search Results", "Check Availability"}

BaseUrl == "https://reservations.ahlsmsworld.com/Yosemite/Plan-Your-Trip/Accommodations/Yosemite-Valley-Lodge/?ArrivalDate="

ResultsUrl == "https://reservations.ahlsmsworld.com/Yosemite/Accommodation-Search/Results?ArrivalDate="

Urls == {BaseUrl, ResultsUrl}

BookButton == [tag |-> "button", class |-> "btn", string |-> "Book Now"]
ReserveLink == [tag |-> "a", class |-> "link", string |-> "Reserve"]
RateDiv == [tag |-> "div", class |-> "rate-row", string |-> ""]
RoomDiv == [tag |-> "div", class |-> "room-item", string |-> ""]
LodgingDiv == [tag |-> "div", class |-> "lodging", string |-> ""]
PriceSpan == [tag |-> "span", class |-> "price", string |-> ""]
ResultsDiv == [tag |-> "div", class |-> "results", string |-> ""]

Elems == {BookButton, ReserveLink, RateDiv, RoomDiv, LodgingDiv, PriceSpan,
          ResultsDiv}

Pages ==
    [text : SubsetsUpTo(Texts, MaxTokens),
     elems : SubsetsUpTo(Elems, MaxElems),
     url : Urls,
     title : Titles,
     price_lookup_fails : BOOLEAN]

(***************************************************************************)
(* String tests.  LowerContains(s): the substrings the checkers search for *)
(* that s.lower() contains.  CaseContains(s): the same for the             *)
(* case-sensitive XPath contains().  DollarAmount(s): re.search('\$\d+').  *)
(***************************************************************************)
LowerContains(s) ==
    CASE s = "Action Not Allowed" -> {"action not allowed"}
      [] s = "Access Denied" -> {"access denied"}
      [] s = "Server Error" -> {"error"}
      [] s = "Currently Unavailable" -> {"unavailable"}
      [] s = "403 Forbidden" -> {"forbidden"}
      [] s = "No availability for your selected dates" ->
             {"no availability", "availability"}
      [] s = "Sold Out" -> {"sold out"}
      [] s = "$249 average/night" -> {"$", "average/night"}
      [] s = "$199" -> {"$"}
      [] s = "Search Results" -> {"search results", "search", "results"}
      [] s = "Check Availability" -> {"check availability", "availability"}
      [] s = "Book Now" -> {"book", "book now"}
      [] s = "Reserve" -> {"reserve"}
      [] s = ResultsUrl ->
             {"accommodation-search/results", "results", "search"}
      [] OTHER -> {}

CaseContains(s) ==
    CASE s = "Book Now" -> {"Book"}
      [] s = "Reserve" -> {"Reserve"}
      [] s = "Search Results" -> {"Results"}
      [] s = "$249 average/night" -> {"$"}
      [] s = "$199" -> {"$"}
      [] OTHER -> {}

DollarAmount(s) == s \in {"$249 average/night", "$199"}

\* the keywords a class attribute contains
ClassContains(c) ==
    CASE c = "rate-row" -> {"rate"}
      [] c = "room-item" -> {"room"}
      [] c = "lodging" -> {"lodging"}
      [] c = "price" -> {"price"}
      [] c = "results" -> {"results"}
      [] OTHER -> {}

\* every string of the page: browser.page_source and soup.get_text() both hold them
PageStrings(p) == p.text \cup {p.title} \cup {e.string : e \in p.elems}

InPage(p, phrase) == \E s \in PageStrings(p) : phrase \in LowerContains(s)

error_phrases ==
    {"action not allowed", "access denied", "error", "unavailable", "forbidden"}

no_availability_phrases ==
    {"no availability", "not available", "no rooms available", "sold out",
     "no lodging available", "no results found", "couldn't find any results",
     "we couldn't find any results"}

result_patterns ==
    {"Accommodation-Search/Results", "accommodation-search/results",
     "Availability", "results", "search"}

(***************************************************************************)
(* YosemiteSeleniumChecker.check_availability, the decision on one page.   *)
(***************************************************************************)
is_results_url(p) == \E pattern \in result_patterns : pattern \in LowerContains(p.url)

has_error(p) == \E phrase \in error_phrases : InPage(p, phrase)

no_availability_found(p) == \E phrase \in no_availability_phrases : InPage(p, phrase)

results_heading(p) ==
    \E e \in p.elems :
        \/ e.tag \in {"h1", "h2"} /\ "Results" \in CaseContains(e.string)
        \/ e.tag = "div" /\ "results-heading" \in ClassContains(e.class)
        \/ e.tag = "div" /\ "results" \in ClassContains(e.class)

has_book_button(p) ==
    \E e \in p.elems :
        /\ e.tag = "button"
        /\ \/ CaseContains(e.string) \cap {"Book", "Reserve", "Select"} # {}
           \/ ClassContains(e.class) \cap {"book", "reserve", "select"} # {}

has_price(p) ==
    IF p.price_lookup_fails THEN FALSE
    ELSE \/ \E s \in p.text : "$" \in CaseContains(s)
         \/ \E e \in p.elems : "price" \in ClassContains(e.class)
         \/ \E e \in p.elems : "rate" \in ClassContains(e.class)

has_room_details(p) ==
    \E e \in p.elems :
        /\ e.tag = "div"
        /\ ClassContains(e.class)
               \cap {"room", "accommodation", "result-item", "lodging"} # {}

is_search_form_visible(p) == InPage(p, "search") /\ InPage(p, "check availability")

is_results_page(p) ==
    \/ is_results_url(p)
    \/ results_heading(p)
    \/ "results" \in LowerContains(p.title)
    \/ "availability" \in LowerContains(p.title)
    \/ InPage(p, "search results") /\ ~is_search_form_visible(p)

true_availability_any_page(p) ==
    /\ has_book_button(p) \/ has_price(p) \/ has_room_details(p)
    /\ ~no_availability_found(p)
    /\ ~has_error(p)

true_availability(p) ==
    /\ is_results_page(p)
    /\ has_book_button(p) \/ has_price(p) \/ has_room_details(p)
    /\ ~no_availability_found(p)
    /\ ~has_error(p)

(***************************************************************************)
(* YosemiteRequestsChecker.check_availability, the decision on one page.   *)
(* no_availability is computed and not used.                               *)
(***************************************************************************)
no_availability(p) == \E phrase \in no_availability_phrases : InPage(p, phrase)

rate_elements(p) ==
    {e \in p.elems : e.tag = "div" /\ ClassContains(e.class) \cap {"rate", "room"} # {}}

book_buttons(p) ==
    {e \in p.elems : e.tag \in {"button", "a"}
                     /\ LowerContains(e.string) \cap {"book", "reserve"} # {}}

price_elements(p) == {s \in PageStrings(p) : DollarAmount(s)}

has_dollar_sign(p) == InPage(p, "$")

has_availability(p) ==
    \/ rate_elements(p) # {}
    \/ book_buttons(p) # {}
    \/ price_elements(p) # {}
    \/ has_dollar_sign(p)

\* the decision of the checker class the configuration selects
classify(method, p) ==
    IF method = "selenium" THEN true_availability(p) ELSE has_availability(p)

(***************************************************************************)
(* What the site and the machine do during one check_availability call.    *)
(* fetch: for each of the first MaxSite probed check-in dates, the page    *)
(* the site answers with, or an exception raised while the date is probed  *)
(* (network error, timeout, parsing error); every other date gets the      *)
(* sold-out page.  abortAt: the loop iteration in which an exception       *)
(* escapes the per-date handler (0: none).  fault: what fails outside the  *)
(* loop.                                                                   *)
(***************************************************************************)
RoomsPage ==
    [text |-> {"$249 average/night"}, elems |-> {RoomDiv}, url |-> ResultsUrl,
     title |-> "Search Results", price_lookup_fails |-> FALSE]

SoldOutPage ==
    [text |-> {"No availability for your selected dates"}, elems |-> {},
     url |-> ResultsUrl, title |-> "Search Results",
     price_lookup_fails |-> FALSE]

Fetched(p) == [raises |-> FALSE, page |-> p]

FetchRaises == [raises |-> TRUE, page |-> SoldOutPage]

Outcomes == {Fetched(RoomsPage), Fetched(SoldOutPage), FetchRaises}

SeleniumFaults == {"none", "setup", "horizon", "quit"}

RequestsFaults == {"none", "horizon", "main_page"}

Faults(method) == IF method = "selenium" THEN SeleniumFaults ELSE RequestsFaults

(***************************************************************************)
(* The for loop of check_availability (the same in both classes): the      *)
(* indexes range(len(weekend_dates) - 1), the three continue tests, the    *)
(* per-date try and the outer try.  Sequences are 1-based: the code's      *)
(* index i is k - 1.                                                       *)
(***************************************************************************)
SkippedIgnoringFlags(date, cfg) == weekday(date) \notin {FRIDAY, SATURDAY}

SkippedByFlagsOnly(date, cfg) ==
    \/ weekday(date) = FRIDAY /\ ~cfg.check_friday_saturday
    \/ weekday(date) = SATURDAY /\ ~cfg.check_saturday_sunday

Skipped(date, cfg) ==
    \/ weekday(date) = FRIDAY /\ ~cfg.check_friday_saturday
    \/ weekday(date) = SATURDAY /\ ~cfg.check_saturday_sunday
    \/ weekday(date) \notin {FRIDAY, SATURDAY}

PageFor(inp, date) ==
    IF date \in DOMAIN inp.fetch THEN inp.fetch[date] ELSE Fetched(SoldOutPage)

\* range(len(weekend_dates) - 1): the last index the loop visits
LastIndex(weekend_dates) == Len(weekend_dates) - 1

RECURSIVE ProbeLoop(_, _, _, _, _)
ProbeLoopEndingAtError(weekend_dates, cfg, inp, k, acc) ==
    IF k > LastIndex(weekend_dates) THEN acc
    ELSE IF inp.abortAt = k THEN [acc EXCEPT !.aborted = TRUE]
    ELSE LET check_in_date == weekend_dates[k]
             got == PageFor(inp, check_in_date)
             probing == [acc EXCEPT
                            !.probed = Append(@, <<check_in_date, check_in_date + 1>>)]
         IN IF Skipped(check_in_date, cfg)
            THEN ProbeLoop(weekend_dates, cfg, inp, k + 1, acc)
            ELSE IF got.raises
            THEN [probing EXCEPT !.failed = Append(@, check_in_date)]
            ELSE IF classify(cfg.method, got.page)
            THEN ProbeLoop(weekend_dates, cfg, inp, k + 1,
                           [probing EXCEPT !.dates = Append(@, check_in_date)])
            ELSE ProbeLoop(weekend_dates, cfg, inp, k + 1, probing)

ProbeLoop(weekend_dates, cfg, inp, k, acc) ==
    IF k > LastIndex(weekend_dates) THEN acc
    ELSE IF inp.abortAt = k THEN [acc EXCEPT !.aborted = TRUE]
    ELSE LET check_in_date == weekend_dates[k]
             check_out_date == weekend_dates[k] + 1
             got == PageFor(inp, check_in_date)
             probing == [acc EXCEPT
                            !.probed = Append(@, <<check_in_date, check_out_date>>)]
         IN IF Skipped(check_in_date, cfg)
            THEN ProbeLoop(weekend_dates, cfg, inp, k + 1, acc)
            ELSE IF got.raises
            THEN ProbeLoop(weekend_dates, cfg, inp, k + 1,
                           [probing EXCEPT !.failed = Append(@, check_in_date)])
            ELSE IF classify(cfg.method, got.page)
            THEN ProbeLoop(weekend_dates, cfg, inp, k + 1,
                           [probing EXCEPT !.dates = Append(@, check_in_date)])
            ELSE ProbeLoop(weekend_dates, cfg, inp, k + 1, probing)

NoPass ==
    [state |-> "idle", dates |-> <<>>, probed |-> <<>>, failed |-> <<>>,
     aborted |-> FALSE, weekend_dates |-> <<>>, browser |-> "None"]

\* YosemiteSeleniumChecker.check_availability, called with self.browser = held
SeleniumCheckAvailability(cfg, day, inp, held) ==
    IF held = "None" /\ (inp.fault = "setup" \/ cfg.browser \notin {"chrome", "firefox"})
    THEN [NoPass EXCEPT !.state = "raised"]
    ELSE IF inp.fault = "horizon"
    THEN [NoPass EXCEPT !.state = "raised", !.browser = "held"]
    ELSE LET weekend_dates == get_weekend_dates(day, cfg.months_ahead)
             looped == ProbeLoop(weekend_dates, cfg, inp, 1,
                                 [NoPass EXCEPT !.weekend_dates = weekend_dates])
         IN IF inp.fault = "quit"
            THEN [looped EXCEPT !.state = "raised", !.browser = "held"]
            ELSE [looped EXCEPT !.state = "returned", !.browser = "None"]

\* YosemiteRequestsChecker.check_availability
RequestsCheckAvailability(cfg, day, inp) ==
    IF inp.fault = "horizon"
    THEN [NoPass EXCEPT !.state = "raised"]
    ELSE LET weekend_dates == get_weekend_dates(day, cfg.months_ahead)
             start == [NoPass EXCEPT !.weekend_dates = weekend_dates]
         IN IF inp.fault = "main_page"
            THEN [start EXCEPT !.state = "returned", !.aborted = TRUE]
            ELSE [ProbeLoop(weekend_dates, cfg, inp, 1, start)
                      EXCEPT !.state = "returned"]

\* the check-in dates a pass of the configuration probes, in order
RECURSIVE CheckIns(_, _, _)
CheckIns(weekend_dates, cfg, k) ==
    IF k > LastIndex(weekend_dates) THEN <<>>
    ELSE IF Skipped(weekend_dates[k], cfg) THEN CheckIns(weekend_dates, cfg, k + 1)
    ELSE <<weekend_dates[k]>> \o CheckIns(weekend_dates, cfg, k + 1)

\* the dates for which the site answers with a page of its own
FirstOf(ins, n) == {ins[k] : k \in 1..(IF Len(ins) < n THEN Len(ins) ELSE n)}

Pool(cfg, day) ==
    FirstOf(CheckIns(get_weekend_dates(day, cfg.months_ahead), cfg, 1), MaxSite)

PassInputs(cfg, day) ==
    [fetch : [Pool(cfg, day) -> Outcomes],
     abortAt : 0..MaxAbort,
     fault : Faults(cfg.method)]

Methods == {"selenium", "requests"}

\* config["browser"]: setup_browser knows chrome and firefox
Browsers == {"chrome", "firefox", "safari"}

Configs ==
    [method : Methods,
     browser : Browsers,
     months_ahead : 0..MaxMonths,
     check_friday_saturday : BOOLEAN,
     check_saturday_sunday : BOOLEAN,
     max_retries : 0..MaxRetries,
     retry_delay_seconds : {DefaultRetryDelay}]

(***************************************************************************)
(* last_results.json as text.  A JSON value is a record with its type t    *)
(* and its content v: the entries <<key, value>> of an object in the order *)
(* of the text, the elements of an array, the characters of a string.      *)
(***************************************************************************)
Str(s) == [t |-> "string", v |-> s]

Arr(l) == [t |-> "array", v |-> l]

Obj(l) == [t |-> "object", v |-> l]

Null == [t |-> "null", v |-> <<>>]

NoFile == [kind |-> "missing"]

UnreadableFile == [kind |-> "unreadable"]

InvalidJsonFile == [kind |-> "invalid_json"]

JsonFile(j) == [kind |-> "json", value |-> j]

\* the variables of envVars, when the specification does not use them
\* main or send_email_notification not called, or not yet
NotCalled == [state |-> "idle"]

MainIdle == main_in = NotCalled /\ main_out = NotCalled

MailIdle == mail_in = NotCalled /\ mail_out = NotCalled

\* DEFAULT_CONFIG as the module defines it: the nested dicts with the keys
\* send_email_notification and the checkers read; a string is the sequence
\* of its characters
Defaults ==
    [max_retries |-> DefaultMaxRetries,
     email |-> [enabled |-> TRUE, username |-> <<>>, password |-> <<>>,
                from_address |-> <<>>, to_address |-> <<>>],
     urls |-> [base_url |-> <<"b">>]]

ConfIdle == DEFAULT_CONFIG = Defaults /\ config_json = NotCalled

EnvIdle ==
    /\ file = NoFile
    /\ next_check = 0
    /\ MainIdle
    /\ MailIdle
    /\ ConfIdle

\* the calendar of 2025; day 0 is Monday 2025-03-31, the 90th day of the year
MonthLengths == <<31, 28, 31, 30, 31, 30, 31, 31, 30, 31, 30, 31>>

RECURSIVE MonthAndDay(_, _)
MonthAndDay(day_of_year, m) ==
    IF day_of_year <= MonthLengths[m] THEN <<m, day_of_year>>
    ELSE MonthAndDay(day_of_year - MonthLengths[m], m + 1)

TwoDigits(n) == IF n < 10 THEN "0" \o ToString(n) ELSE ToString(n)

\* date.isoformat(): YYYY-MM-DD
isoformat(d) ==
    LET md == MonthAndDay(90 + d, 1)
    IN "2025-" \o TwoDigits(md[1]) \o "-" \o TwoDigits(md[2])

\* the dates of the model that isoformat can have written
IsoDates == 0..(MaxDate + DaysPerMonth * MaxMonths)

\* datetime.date.fromisoformat(x): raises unless x is a str in YYYY-MM-DD
IsIsoDate(x) == x.t = "string" /\ \E d \in IsoDates : isoformat(d) = x.v

fromisoformat(x) == CHOOSE d \in IsoDates : isoformat(d) = x.v

\* iterating over a loaded JSON value: the elements of a list, the keys of a
\* dict, the characters of a str (one character is never a date, whichever
\* it is); None and numbers are not iterable
Iterable(j) == j.t \in {"array", "object", "string"}

Items(j) ==
    CASE j.t = "array" -> j.v
      [] j.t = "object" -> [k \in DOMAIN j.v |-> Str(j.v[k][1])]
      [] j.t = "string" -> [k \in 1..Len(j.v) |-> Str("c")]
      [] OTHER -> <<>>

\* dict.get(key, []) of a loaded object
Get(data, key) ==
    IF \E k \in DOMAIN data.v : data.v[k][1] = key
    THEN data.v[CHOOSE k \in DOMAIN data.v : data.v[k][1] = key][2]
    ELSE Arr(<<>>)

(***************************************************************************)
(* load_last_results and save_results on the text of the file.             *)
(***************************************************************************)
EmptyResult == [raises |-> FALSE, dates |-> <<>>, pairs |-> <<>>]

Raised == [raises |-> TRUE, dates |-> <<>>, pairs |-> <<>>]

\* [fromisoformat(d) for d in ...] raises on the first element that is no date
DatesParse(j) ==
    /\ Iterable(j)
    /\ \A k \in DOMAIN Items(j) : IsIsoDate(Items(j)[k])

\* for d1, d2 in ...: each element unpacks into two items that are dates
PairParse(e) ==
    /\ Iterable(e)
    /\ Len(Items(e)) = 2
    /\ IsIsoDate(Items(e)[1])
    /\ IsIsoDate(Items(e)[2])

PairsParse(j) ==
    /\ Iterable(j)
    /\ \A k \in DOMAIN Items(j) : PairParse(Items(j)[k])

\* the try block of load_last_results
load_try(f) ==
    IF f.kind = "missing" THEN EmptyResult
    ELSE IF f.kind \in {"unreadable", "invalid_json"} THEN Raised
    ELSE IF f.value.t # "object" THEN Raised
    ELSE LET dates_json == Get(f.value, "available_dates")
             pairs_json == Get(f.value, "consecutive_pairs")
         IN IF DatesParse(dates_json) /\ PairsParse(pairs_json)
            THEN [raises |-> FALSE,
                  dates |-> [k \in DOMAIN Items(dates_json) |->
                                fromisoformat(Items(dates_json)[k])],
                  pairs |-> [k \in DOMAIN Items(pairs_json) |->
                                <<fromisoformat(Items(Items(pairs_json)[k])[1]),
                                  fromisoformat(Items(Items(pairs_json)[k])[2])>>]]
            ELSE Raised

load_last_results_unguarded(f) == load_try(f)

\* load_last_results: except Exception returns [], []
load_last_results(f) == IF load_try(f).raises THEN EmptyResult ELSE load_try(f)

\* what json.dump writes for results
ResultsJson(dates, pairs) ==
    Obj(<< <<"timestamp", Str("now")>>,
           <<"available_dates", Arr([k \in DOMAIN dates |-> Str(isoformat(dates[k]))])>>,
           <<"consecutive_pairs",
             Arr([k \in DOMAIN pairs |->
                     Arr(<<Str(isoformat(pairs[k][1])),
                           Str(isoformat(pairs[k][2]))>>)])>> >>)

\* written: the dump succeeds; not_opened: open raises and the file stays;
\* partial: open has truncated the file and the dump raises
SaveOutcomes == {"written", "not_opened", "partial"}

save_results_without_pairs(f, dates, pairs, outcome) ==
    CASE outcome = "written" -> JsonFile(ResultsJson(dates, <<>>))
      [] outcome = "not_opened" -> f
      [] outcome = "partial" -> InvalidJsonFile

\* save_results: the file it leaves
save_results(f, dates, pairs, outcome) ==
    CASE outcome = "written" -> JsonFile(ResultsJson(dates, pairs))
      [] outcome = "not_opened" -> f
      [] outcome = "partial" -> InvalidJsonFile

NoResults == [exists |-> FALSE, available_dates |-> <<>>, consecutive_pairs |-> <<>>]

NoPage ==
    [text |-> {}, elems |-> {}, url |-> BaseUrl, title |-> "Yosemite Valley Lodge",
     price_lookup_fails |-> FALSE]

NoVerdict == [selenium |-> "none", requests |-> "none"]

\* the scheduler's variables, when no scheduler runs
SchedIdle ==
    /\ single_run = TRUE
    /\ pc = "idle"
    /\ retries = 0
    /\ available_dates = <<>>
    /\ consecutive_pairs = <<>>
    /\ previous_available_dates = <<>>
    /\ previous_consecutive_pairs = <<>>
    /\ new_dates = <<>>
    /\ new_consecutive = <<>>
    /\ last_results = NoResults
    /\ attempts = 0
    /\ slept = <<>>
    /\ handed = <<>>
    /\ run_outcome = "none"
    /\ browser = "None"

(***************************************************************************)
(* SpecPass: one check_availability call.                                  *)
(***************************************************************************)
InitPass ==
    /\ today \in 0..SUNDAY
    /\ config \in {c \in Configs : /\ c.max_retries = DefaultMaxRetries
                                   /\ c.browser = "chrome"}
    /\ pass_in \in PassInputs(config, today)
    /\ pass_out = NoPass
    /\ page = NoPage
    /\ verdict = NoVerdict
    /\ SchedIdle
    /\ EnvIdle

SeleniumPass ==
    /\ config.method = "selenium"
    /\ pass_out.state = "idle"
    /\ pass_out' = SeleniumCheckAvailability(config, today, pass_in, "None")
    /\ UNCHANGED <<today, config, pass_in, schedVars, classVars,
                   envVars>>

RequestsPass ==
    /\ config.method = "requests"
    /\ pass_out.state = "idle"
    /\ pass_out' = RequestsCheckAvailability(config, today, pass_in)
    /\ UNCHANGED <<today, config, pass_in, schedVars, classVars,
                   envVars>>

NextPass == SeleniumPass \/ RequestsPass

SpecPass == InitPass /\ [][NextPass]_vars

(***************************************************************************)
(* SpecClassify: the decision of each checker class on one page.           *)
(***************************************************************************)
InitClassify ==
    /\ page \in Pages
    /\ verdict = NoVerdict
    /\ today = 0
    /\ config \in {c \in Configs : /\ c.max_retries = DefaultMaxRetries
                                   /\ c.months_ahead = 0
                                   /\ c.check_friday_saturday
                                   /\ c.check_saturday_sunday
                                   /\ c.method = "selenium"
                                   /\ c.browser = "chrome"}
    /\ pass_in \in {i \in PassInputs(config, today) : i.abortAt = 0 /\ i.fault = "none"}
    /\ pass_out = NoPass
    /\ SchedIdle
    /\ EnvIdle

Verdict(b) == IF b THEN "available" ELSE "unavailable"

SeleniumClassify ==
    /\ verdict.selenium = "none"
    /\ verdict' = [verdict EXCEPT !.selenium = Verdict(classify("selenium", page))]
    /\ UNCHANGED <<today, config, page, schedVars, passVars, envVars>>

RequestsClassify ==
    /\ verdict.requests = "none"
    /\ verdict' = [verdict EXCEPT !.requests = Verdict(classify("requests", page))]
    /\ UNCHANGED <<today, config, page, schedVars, passVars, envVars>>

NextClassify == SeleniumClassify \/ RequestsClassify

SpecClassify == InitClassify /\ [][NextClassify]_vars

(***************************************************************************)
(* Spec: run_availability_checker.  pc:                                    *)
(*   start     before load_last_results                                    *)
(*   loop      at the top of the while loop                                *)
(*   attempt   in run_check, about to call check_availability              *)
(*   pause     in run_check, in time.sleep(retry_delay)                    *)
(*   save      run_check has returned, before save_results                 *)
(*   compare   before compare_results and the notification                 *)
(*   update    before the previous results are replaced                    *)
(*   sleep     in time.sleep(next_check)                                   *)
(*   cooldown  in time.sleep(900) of the handler of unexpected errors      *)
(*   done      the function has returned                                   *)
(***************************************************************************)
(***************************************************************************)
(* calculate_next_check_time.  Times inside the function are floats: they  *)
(* are counted in tenths of a second, and interval_variation_percent in    *)
(* tenths of a percent, so that 33.3 percent of an hour, 1198.8 seconds,   *)
(* is a value of the model.                                                *)
(***************************************************************************)
Tenths(seconds) == seconds * 10

\* int(x) of a non-negative float: the whole seconds
int(tenths) == tenths \div 10

max(a, b) == IF a >= b THEN a ELSE b

base_interval(cfg) == Tenths(cfg.check_interval_hours * 3600)

\* base_interval * (variation_percent / 100)
variation_seconds(cfg) == (base_interval(cfg) * cfg.interval_variation_percent) \div 1000

\* random.uniform(a, b): a + (b - a) * random.random()
uniform(a, b, k) == a + ((b - a) * k) \div RandomSteps

calculate_next_check_time_rounding_up(cfg, k) ==
    int(max(Tenths(MinInterval),
            uniform(base_interval(cfg) - variation_seconds(cfg),
                    base_interval(cfg) + variation_seconds(cfg), k)) + 9)

calculate_next_check_time(cfg, k) ==
    int(max(Tenths(MinInterval),
            uniform(base_interval(cfg) - variation_seconds(cfg),
                    base_interval(cfg) + variation_seconds(cfg), k)))

CheckAvailability(cfg, day, inp, held) ==
    IF cfg.method = "selenium"
    THEN SeleniumCheckAvailability(cfg, day, inp, held)
    ELSE RequestsCheckAvailability(cfg, day, inp)

RetryAgainInclusive(n, max_retries) == n <= max_retries

\* run_check: `if retries < max_retries` after a failed attempt
RetryAgain(n, max_retries) == n < max_retries

compare_results_no_difference(current, previous) == SeqToSet(current)

\* compare_results: the set its list is built from
compare_results(current, previous) == SeqToSet(current) \ SeqToSet(previous)

Stored(dates, pairs) ==
    [exists |-> TRUE, available_dates |-> dates, consecutive_pairs |-> pairs]

\* the ascending list of a set of dates
RECURSIVE Sorted(_)
Sorted(S) ==
    IF S = {} THEN <<>>
    ELSE LET m == CHOOSE x \in S : \A y \in S : x <= y
         IN <<m>> \o Sorted(S \ {m})

\* what an earlier run may have left in last_results.json
EarlierResults(cfg, day) ==
    {NoResults} \cup
    {Stored(Sorted(S), find_consecutive_days(Sorted(S))) : S \in SUBSET Pool(cfg, day)}

IdleInput == [fetch |-> [d \in {} |-> FetchRaises], abortAt |-> 0, fault |-> "none"]

\* the scheduler runs with a horizon of one month and both weekend flags set:
\* SpecPass varies the horizon and the flags.  The browser is chrome (firefox
\* differs in the options of setup_browser only) or, for the Selenium
\* checker, one that setup_browser does not know
SchedConfigs ==
    {c \in Configs : /\ c.months_ahead = 1
                     /\ c.check_friday_saturday
                     /\ c.check_saturday_sunday
                     /\ \/ c.browser = "chrome"
                        \/ c.browser = "safari" /\ c.method = "selenium"}

\* today's weekday matters to the scheduler only through the probed dates:
\* on a Friday the first two are that Friday and Saturday, on a Saturday
\* that Saturday and the next Friday, on any other day (as on a Sunday) the
\* next Friday and Saturday
SchedDays == FRIDAY..SUNDAY

\* what one check_availability call of the scheduler meets.  A date whose
\* probe raises is not appended, like a sold-out date, and a failure outside
\* the loop ends the call whatever the site answers, so that these inputs
\* lead to every state the inputs of PassInputs lead to
SchedInputs(cfg, day) ==
    {i \in PassInputs(cfg, day) :
        /\ \A d \in DOMAIN i.fetch : ~i.fetch[d].raises
        /\ i.fault # "none" =>
               /\ i.abortAt = 0
               /\ \A d \in DOMAIN i.fetch : i.fetch[d] = Fetched(SoldOutPage)}

Init ==
    /\ today \in SchedDays
    /\ config \in SchedConfigs
    /\ single_run \in BOOLEAN
    /\ pc = "start"
    /\ retries = 0
    /\ available_dates = <<>>
    /\ consecutive_pairs = <<>>
    /\ previous_available_dates = <<>>
    /\ previous_consecutive_pairs = <<>>
    /\ new_dates = <<>>
    /\ new_consecutive = <<>>
    /\ last_results \in EarlierResults(config, today)
    /\ attempts = 0
    /\ slept = <<>>
    /\ handed = <<>>
    /\ run_outcome = "none"
    /\ browser = "None"
    /\ pass_in = IdleInput
    /\ pass_out = NoPass
    /\ page = NoPage
    /\ verdict = NoVerdict
    /\ EnvIdle

\* the function returns: its locals are gone, the file and the history stay
Returned ==
    /\ pc' = "done"
    /\ retries' = 0
    /\ available_dates' = <<>>
    /\ consecutive_pairs' = <<>>
    /\ previous_available_dates' = <<>>
    /\ previous_consecutive_pairs' = <<>>
    /\ new_dates' = <<>>
    /\ new_consecutive' = <<>>

\* load_last_results: the stored lists, or two empty lists
LoadLastResults ==
    /\ pc = "start"
    /\ \E readable \in BOOLEAN :
          /\ previous_available_dates' =
                 IF last_results.exists /\ readable
                 THEN last_results.available_dates ELSE <<>>
          /\ previous_consecutive_pairs' =
                 IF last_results.exists /\ readable
                 THEN last_results.consecutive_pairs ELSE <<>>
    /\ pc' = "loop"
    /\ UNCHANGED <<today, config, single_run, retries, available_dates,
                   consecutive_pairs, new_dates, new_consecutive, last_results,
                   attempts, slept, handed, run_outcome,
                   browser, passVars, classVars,
                   envVars>>

\* the top of the while loop: run_check is called and enters its own loop;
\* with max_retries <= 0 it falls through and returns None, the unpacking
\* raises TypeError and the handler of unexpected errors runs
StartCycle ==
    /\ pc = "loop"
    /\ attempts' = 0
    /\ slept' = <<>>
    /\ handed' = <<>>
    /\ IF 0 < config.max_retries
       THEN /\ pc' = "attempt"
            /\ run_outcome' = "running"
            /\ retries' = 0
            /\ new_dates' = <<>>
            /\ new_consecutive' = <<>>
            /\ UNCHANGED <<available_dates, consecutive_pairs,
                           previous_available_dates, previous_consecutive_pairs>>
       ELSE /\ run_outcome' = "error"
            /\ IF single_run
               THEN Returned
               ELSE /\ pc' = "cooldown"
                    /\ retries' = 0
                    /\ new_dates' = <<>>
                    /\ new_consecutive' = <<>>
                    /\ UNCHANGED <<available_dates, consecutive_pairs,
                                   previous_available_dates,
                                   previous_consecutive_pairs>>
    /\ UNCHANGED <<today, config, single_run, last_results, browser, passVars,
                   classVars,
                   envVars>>

\* one iteration of run_check's while loop, up to its return or its sleep;
\* run_check's local retries ends with the call
Attempt ==
    /\ pc = "attempt"
    /\ \E inp \in SchedInputs(config, today) :
       \E r \in {CheckAvailability(config, today, inp, browser)} :
          /\ attempts' = attempts + 1
          /\ browser' = r.browser
          /\ IF r.state = "returned"
             THEN /\ available_dates' = r.dates
                  /\ consecutive_pairs' = find_consecutive_days(r.dates)
                  /\ run_outcome' = IF r.aborted THEN "aborted" ELSE "completed"
                  /\ pc' = "save"
                  /\ retries' = 0
             ELSE IF RetryAgain(retries + 1, config.max_retries)
             THEN /\ retries' = retries + 1
                  /\ pc' = "pause"
                  /\ UNCHANGED <<available_dates, consecutive_pairs, run_outcome>>
             ELSE /\ available_dates' = <<>>
                  /\ consecutive_pairs' = <<>>
                  /\ run_outcome' = "exhausted"
                  /\ pc' = "save"
                  /\ retries' = 0
    /\ UNCHANGED <<today, config, single_run, previous_available_dates,
                   previous_consecutive_pairs, new_dates, new_consecutive,
                   last_results, slept, handed, passVars, classVars,
                   envVars>>

\* time.sleep(retry_delay) between two attempts
RetryPause ==
    /\ pc = "pause"
    /\ slept' = Append(slept, config.retry_delay_seconds)
    /\ pc' = "attempt"
    /\ UNCHANGED <<today, config, single_run, retries, available_dates,
                   consecutive_pairs, previous_available_dates,
                   previous_consecutive_pairs, new_dates, new_consecutive,
                   last_results, attempts, handed, run_outcome,
                   browser, passVars, classVars,
                   envVars>>

\* save_results: writes the file, or logs the error and leaves it
SaveResults ==
    /\ pc = "save"
    /\ \E written \in BOOLEAN :
          last_results' =
              IF written THEN Stored(available_dates, consecutive_pairs)
              ELSE last_results
    /\ pc' = "compare"
    /\ attempts' = 0
    /\ slept' = <<>>
    /\ UNCHANGED <<today, config, single_run, retries, available_dates,
                   consecutive_pairs, previous_available_dates,
                   previous_consecutive_pairs, new_dates, new_consecutive,
                   handed, run_outcome, browser, passVars, classVars,
                   envVars>>

\* compare_results, find_consecutive_days and the notification
CompareNotify ==
    /\ pc = "compare"
    /\ \E listed \in Perms(compare_results(available_dates, previous_available_dates)) :
          /\ new_dates' = listed
          /\ new_consecutive' = find_consecutive_days(listed)
          /\ handed' = IF listed # <<>>
                       THEN Append(handed, [dates |-> listed,
                                            pairs |-> find_consecutive_days(listed)])
                       ELSE handed
    /\ pc' = "update"
    /\ UNCHANGED <<today, config, single_run, retries, available_dates,
                   consecutive_pairs, previous_available_dates,
                   previous_consecutive_pairs, last_results, attempts, slept,
                   run_outcome, browser, passVars, classVars,
                   envVars>>

UpdatePreviousAlwaysBreaks ==
    /\ pc = "update"
    /\ Returned
    /\ UNCHANGED <<today, config, single_run, last_results, attempts, slept,
                   handed, run_outcome, browser, passVars, classVars,
                   envVars>>

\* the previous results are replaced; single_run breaks
UpdatePrevious ==
    /\ pc = "update"
    /\ IF single_run
       THEN Returned
       ELSE /\ pc' = "sleep"
            /\ previous_available_dates' = available_dates
            /\ previous_consecutive_pairs' = consecutive_pairs
            /\ UNCHANGED <<retries, available_dates, consecutive_pairs,
                           new_dates, new_consecutive>>
    /\ UNCHANGED <<today, config, single_run, last_results, attempts, slept,
                   handed, run_outcome, browser, passVars, classVars,
                   envVars>>

\* check_interval_hours and interval_variation_percent (in tenths of a
\* percent) of the scheduler's configuration: the values of DEFAULT_CONFIG
SchedInterval ==
    [check_interval_hours |-> 3, interval_variation_percent |-> 200]

\* next_check = calculate_next_check_time(config); time.sleep(next_check)
Sleep ==
    /\ pc = "sleep"
    /\ pc' = "loop"
    /\ \E k \in 0..RandomSteps :
          slept' = <<calculate_next_check_time(config @@ SchedInterval, k)>>
    /\ UNCHANGED <<today, config, single_run, retries, available_dates,
                   consecutive_pairs, previous_available_dates,
                   previous_consecutive_pairs, new_dates, new_consecutive,
                   last_results, attempts, handed, run_outcome, browser,
                   passVars, classVars, envVars>>

CooldownWithoutSleep ==
    /\ pc = "cooldown"
    /\ pc' = "loop"
    /\ UNCHANGED <<today, config, single_run, retries, available_dates,
                   consecutive_pairs, previous_available_dates,
                   previous_consecutive_pairs, new_dates, new_consecutive,
                   last_results, attempts, slept, handed, run_outcome, browser,
                   passVars, classVars, envVars>>

\* time.sleep(900) after an unexpected error
Cooldown ==
    /\ pc = "cooldown"
    /\ pc' = "loop"
    /\ slept' = <<ErrorCooldown>>
    /\ UNCHANGED <<today, config, single_run, retries, available_dates,
                   consecutive_pairs, previous_available_dates,
                   previous_consecutive_pairs, new_dates, new_consecutive,
                   last_results, attempts, handed, run_outcome, browser,
                   passVars, classVars, envVars>>

\* KeyboardInterrupt, wherever the function stands: nothing between the
\* probing and the loop catches it (every handler below is except
\* Exception), the loop's own handler breaks, and raised in load_last_results
\* or in the sleep of the handler of unexpected errors it leaves the function
InterruptSwallowedInCooldown ==
    /\ pc # "done"
    /\ run_outcome' = "interrupted"
    /\ IF pc = "cooldown"
       THEN /\ pc' = "loop"
            /\ UNCHANGED <<retries, available_dates, consecutive_pairs,
                           previous_available_dates, previous_consecutive_pairs,
                           new_dates, new_consecutive>>
       ELSE Returned
    /\ UNCHANGED <<today, config, single_run, last_results, attempts, slept,
                   handed, browser, passVars, classVars, envVars>>

Interrupt ==
    /\ pc # "done"
    /\ run_outcome' = "interrupted"
    /\ Returned
    /\ UNCHANGED <<today, config, single_run, last_results, attempts, slept,
                   handed, browser, passVars, classVars, envVars>>

Next ==
    \/ LoadLastResults
    \/ StartCycle
    \/ Attempt
    \/ RetryPause
    \/ SaveResults
    \/ CompareNotify
    \/ UpdatePrevious
    \/ Sleep
    \/ Cooldown
    \/ Interrupt

Spec == Init /\ [][Next]_vars

(***************************************************************************)
(* SpecConsecutive: find_consecutive_days on an ascending list of dates.   *)
(***************************************************************************)
\* the ascending lists of at most MaxDates dates
AscendingLists ==
    UNION {{l \in [1..n -> 0..MaxDate] : \A i \in 1..(n - 1) : l[i] <= l[i + 1]} :
              n \in 0..MaxDates}

InitConsecutive ==
    /\ today = 0
    /\ config \in {c \in SchedConfigs : /\ c.method = "selenium"
                                        /\ c.browser = "chrome"
                                        /\ c.max_retries = DefaultMaxRetries}
    /\ single_run = TRUE
    /\ pc = "find"
    /\ retries = 0
    /\ available_dates \in AscendingLists
    /\ consecutive_pairs = <<>>
    /\ previous_available_dates = <<>>
    /\ previous_consecutive_pairs = <<>>
    /\ new_dates = <<>>
    /\ new_consecutive = <<>>
    /\ last_results = NoResults
    /\ attempts = 0
    /\ slept = <<>>
    /\ handed = <<>>
    /\ run_outcome = "none"
    /\ browser = "None"
    /\ pass_in = IdleInput
    /\ pass_out = NoPass
    /\ page = NoPage
    /\ verdict = NoVerdict
    /\ EnvIdle

FindConsecutive ==
    /\ pc = "find"
    /\ consecutive_pairs' = find_consecutive_days(available_dates)
    /\ pc' = "found"
    /\ UNCHANGED <<today, config, single_run, retries, available_dates,
                   previous_available_dates, previous_consecutive_pairs,
                   new_dates, new_consecutive, last_results, attempts, slept,
                   handed, run_outcome, browser, passVars, classVars,
                   envVars>>

NextConsecutive == FindConsecutive

SpecConsecutive == InitConsecutive /\ [][NextConsecutive]_vars

(***************************************************************************)
(* SpecStore: save_results and load_last_results on last_results.json.     *)
(* pc: start; saved, save_failed after save_results; loaded after          *)
(* load_last_results, reloaded when it follows a successful save_results,  *)
(* load_raised if an exception left load_last_results.                     *)
(***************************************************************************)
StoreDates == {FRIDAY, SATURDAY}

\* the lists of at most n elements of S
ListsUpTo(S, n) == UNION {[1..k -> S] : k \in 0..n}

Iso(d) == Str(isoformat(d))

\* values found under "available_dates"
DatesValues ==
    {Arr(<<>>), Arr(<<Iso(FRIDAY)>>), Arr(<<Iso(FRIDAY), Iso(SATURDAY)>>),
     Arr(<<Str("2025-4-4")>>), Arr(<<Iso(FRIDAY), Null>>), Str(isoformat(FRIDAY)),
     Str(""), Null, Obj(<< <<isoformat(FRIDAY), Null>> >>)}

\* values found under "consecutive_pairs"
PairsValues ==
    {Arr(<<>>), Arr(<<Arr(<<Iso(FRIDAY), Iso(SATURDAY)>>)>>),
     Arr(<<Arr(<<Iso(FRIDAY)>>)>>),
     Arr(<<Arr(<<Iso(FRIDAY), Iso(SATURDAY), Iso(SUNDAY)>>)>>),
     Arr(<<Arr(<<Iso(FRIDAY), Str("tomorrow")>>)>>), Arr(<<Str("ab")>>), Null,
     Arr(<<Obj(<< <<isoformat(FRIDAY), Null>>, <<isoformat(SATURDAY), Null>> >>)>>)}

\* the objects a file may hold: each key present or not
Objects ==
    {Obj(<< <<"timestamp", Str("now")>> >>)}
    \cup {Obj(<< <<"available_dates", d>> >>) : d \in DatesValues}
    \cup {Obj(<< <<"consecutive_pairs", p>> >>) : p \in PairsValues}
    \cup {Obj(<< <<"available_dates", d>>, <<"consecutive_pairs", p>> >>) :
             d \in DatesValues, p \in PairsValues}

\* what last_results.json may be when the program starts
FileContents ==
    {NoFile, UnreadableFile, InvalidJsonFile}
    \cup {JsonFile(j) : j \in {Null, Arr(<<>>), Str("now")} \cup Objects}

InitStore ==
    /\ today = 0
    /\ config \in {c \in SchedConfigs : /\ c.method = "selenium"
                                        /\ c.browser = "chrome"
                                        /\ c.max_retries = DefaultMaxRetries}
    /\ single_run = TRUE
    /\ pc = "start"
    /\ retries = 0
    /\ available_dates = <<>>
    /\ consecutive_pairs = <<>>
    /\ previous_available_dates = <<>>
    /\ previous_consecutive_pairs = <<>>
    /\ new_dates = <<>>
    /\ new_consecutive = <<>>
    /\ last_results = NoResults
    /\ attempts = 0
    /\ slept = <<>>
    /\ handed = <<>>
    /\ run_outcome = "none"
    /\ browser = "None"
    /\ pass_in = IdleInput
    /\ pass_out = NoPass
    /\ page = NoPage
    /\ verdict = NoVerdict
    /\ file \in FileContents
    /\ next_check = 0
    /\ MainIdle
    /\ MailIdle
    /\ ConfIdle

SaveCall ==
    /\ pc = "start"
    /\ \E dates \in ListsUpTo(StoreDates, MaxDates),
          pairs \in ListsUpTo(StoreDates \X StoreDates, MaxPairs),
          outcome \in SaveOutcomes :
          /\ file' = save_results(file, dates, pairs, outcome)
          /\ available_dates' = dates
          /\ consecutive_pairs' = pairs
          /\ pc' = IF outcome = "written" THEN "saved" ELSE "save_failed"
    /\ UNCHANGED <<today, config, single_run, retries,
                   previous_available_dates, previous_consecutive_pairs,
                   new_dates, new_consecutive, last_results, attempts, slept,
                   handed, run_outcome, browser, passVars, classVars,
                   next_check, mainVars, mailVars, confVars>>

LoadCall ==
    /\ pc \in {"start", "saved", "save_failed"}
    /\ \E r \in {load_last_results(file)} :
          /\ previous_available_dates' = r.dates
          /\ previous_consecutive_pairs' = r.pairs
          /\ pc' = IF r.raises THEN "load_raised"
                   ELSE IF pc = "saved" THEN "reloaded" ELSE "loaded"
    /\ UNCHANGED <<today, config, single_run, retries, available_dates,
                   consecutive_pairs, new_dates, new_consecutive, last_results,
                   attempts, slept, handed, run_outcome, browser, passVars,
                   classVars, envVars>>

NextStore == SaveCall \/ LoadCall

SpecStore == InitStore /\ [][NextStore]_vars

(***************************************************************************)
(* SpecTimer: calculate_next_check_time on its own.                        *)
(***************************************************************************)
\* interval_variation_percent, in tenths of a percent: 0, 20, 33.3, 100, 150
VariationPercents == {0, 200, 333, 1000, 1500}

TimerConfigs ==
    {c @@ [check_interval_hours |-> h, interval_variation_percent |-> v] :
        c \in {b \in SchedConfigs : /\ b.method = "selenium"
                                    /\ b.browser = "chrome"
                                    /\ b.max_retries = DefaultMaxRetries},
        h \in 0..MaxHours, v \in VariationPercents}

InitTimer ==
    /\ today = 0
    /\ config \in TimerConfigs
    /\ pass_in = IdleInput
    /\ pass_out = NoPass
    /\ page = NoPage
    /\ verdict = NoVerdict
    /\ SchedIdle
    /\ file = NoFile
    /\ next_check = 0
    /\ MainIdle
    /\ MailIdle
    /\ ConfIdle

NextCheck ==
    /\ next_check = 0
    /\ \E k \in 0..RandomSteps : next_check' = calculate_next_check_time(config, k)
    /\ UNCHANGED <<today, config, schedVars, passVars, classVars, file,
                   mainVars, mailVars, confVars>>

NextTimer == NextCheck

SpecTimer == InitTimer /\ [][NextTimer]_vars

(***************************************************************************)
(* SpecMain: main called with --date, with --test-email or with neither.   *)
(* The text of --date is a sequence of characters; str.split, int and      *)
(* datetime.date are computed on it.  The characters of the samples are    *)
(* digits, '-' and a letter (int also reads a sign, blanks and '_', which  *)
(* no sample has).                                                         *)
(***************************************************************************)
Digits == <<"0", "1", "2", "3", "4", "5", "6", "7", "8", "9">>

\* date_str.split('-')
RECURSIVE SplitLoop(_, _, _)
SplitLoop(s, i, fields) ==
    IF i > Len(s) THEN fields
    ELSE IF s[i] = "-" THEN SplitLoop(s, i + 1, Append(fields, <<>>))
    ELSE SplitLoop(s, i + 1,
                   [fields EXCEPT ![Len(fields)] = Append(@, s[i])])

split(s) == SplitLoop(s, 1, << <<>> >>)

\* int(text): ValueError on the empty text and on any character but a digit
RECURSIVE IntLoop(_, _, _)
IntLoop(text, i, value) ==
    IF i > Len(text) THEN value
    ELSE IntLoop(text, i + 1,
                 value * 10 + (CHOOSE d \in 0..9 : Digits[d + 1] = text[i]))

IntRaises(text) ==
    \/ text = <<>>
    \/ \E i \in 1..Len(text) : \A d \in 0..9 : Digits[d + 1] # text[i]

\* datetime.date(year, month, day) raises ValueError outside these ranges
DateRaises(year, month, day) ==
    \/ year < 1 \/ year > 9999
    \/ month < 1 \/ month > 12
    \/ day < 1
    \/ day > IF /\ month = 2
                /\ year % 4 = 0
                /\ (year % 100 # 0 \/ year % 400 = 0)
             THEN 29 ELSE MonthLengths[month]

\* month, day, year = map(int, date_str.split('-'));
\* check_date = datetime.date(year, month, day): whether ValueError is raised
ParseRaises(date_str) ==
    LET fields == split(date_str) IN
    \/ Len(fields) # 3
    \/ \E i \in 1..3 : IntRaises(fields[i])
    \/ DateRaises(IntLoop(fields[3], 1, 0), IntLoop(fields[1], 1, 0),
                  IntLoop(fields[2], 1, 0))

\* the number of the day (year, month, day), counted from Monday
\* 0001-01-01 as day 0, so that its remainder by 7 is date.weekday()
DayNumber(year, month, day) ==
    365 * (year - 1) + (year - 1) \div 4 - (year - 1) \div 100
        + (year - 1) \div 400
        + <<0, 31, 59, 90, 120, 151, 181, 212, 243, 273, 304, 334>>[month]
        + (IF /\ month > 2
              /\ year % 4 = 0
              /\ (year % 100 # 0 \/ year % 400 = 0)
           THEN 1 ELSE 0)
        + day - 1

\* check_date of a date_str that parses
CheckDate(date_str) ==
    LET fields == split(date_str)
    IN DayNumber(IntLoop(fields[3], 1, 0), IntLoop(fields[1], 1, 0),
                 IntLoop(fields[2], 1, 0))

\* send_email_notification(config, [date], [(date, date + 1 day)])
NotifyOneDate(date) ==
    <<[dates |-> <<date>>, pairs |-> << <<date, date + 1>> >>]>>

\* what load_config does to the configuration file
load_config_effects(config_file) ==
    IF config_file = "absent" THEN <<"config_written">> ELSE <<>>

\* send_email_notification as main and check_specific_date see it: the call,
\* and a message leaving when the configuration and the servers allow it
NotifierEffects(inp) ==
    IF inp.mail_accepted THEN <<"notifier_called", "email_sent">>
    ELSE <<"notifier_called">>

check_specific_date(inp, cfg) ==
    IF ParseRaises(inp.date)
    THEN [effects |-> <<>>, logged |-> "invalid_date", handed |-> <<>>]
    ELSE IF cfg.method = "selenium"
    THEN IF cfg.browser \notin {"chrome", "firefox"}
         THEN [effects |-> <<>>, logged |-> "invalid_date", handed |-> <<>>]
         ELSE IF inp.site = "error"
         THEN [effects |-> <<"browser_session", "page_requested">>,
               logged |-> "error", handed |-> <<>>]
         ELSE [effects |-> <<"browser_session", "page_requested",
                             "page_requested">>
                           \o (IF inp.site = "rooms" THEN NotifierEffects(inp)
                               ELSE <<>>),
               logged |-> "none",
               handed |-> IF inp.site = "rooms"
                          THEN NotifyOneDate(CheckDate(inp.date)) ELSE <<>>]
    ELSE IF inp.site = "error"
    THEN [effects |-> <<"page_requested">>, logged |-> "error",
          handed |-> <<>>]
    ELSE [effects |-> <<"page_requested">>
                      \o (IF inp.site = "rooms" THEN NotifierEffects(inp)
                          ELSE <<>>),
          logged |-> "none",
          handed |-> IF inp.site = "rooms"
                     THEN NotifyOneDate(CheckDate(inp.date)) ELSE <<>>]

\* argparse leaves args.date None without --date
NoDate == <<"None">>

\* main on the day `day`: the test date of --test-email is three days on
main(inp, cfg, day) ==
    LET loaded == load_config_effects(inp.config_file) IN
    IF inp.test_email
    THEN [state |-> "exited", effects |-> loaded \o NotifierEffects(inp),
          logged |-> "none", handed |-> NotifyOneDate(day + 3)]
    ELSE IF inp.date # NoDate /\ inp.date # <<>>
    THEN LET r == check_specific_date(inp, cfg) IN
         [state |-> "exited", effects |-> loaded \o r.effects,
          logged |-> r.logged, handed |-> r.handed]
    ELSE [state |-> "running",
          effects |-> loaded \o <<"run_availability_checker">>,
          logged |-> "none", handed |-> <<>>]

\* the texts between the '-' of the sample arguments
FieldSamples ==
    {<<"0", "4">>, <<"4">>, <<"1", "3">>, <<"3", "0">>, <<"0", "2">>,
     <<"2", "0", "2", "5">>, <<"2", "5">>, <<"a">>, <<>>}

RECURSIVE Join(_)
Join(fields) ==
    IF Len(fields) = 1 THEN fields[1]
    ELSE fields[1] \o <<"-">> \o Join(Tail(fields))

DateArgs ==
    {Join(f) : f \in UNION {[1..n -> FieldSamples] : n \in 1..MaxFields}}

MainInputs ==
    [date : DateArgs \cup {NoDate},
     test_email : BOOLEAN,
     config_file : {"present", "absent", "absent_unwritable"},
     site : {"rooms", "no_rooms", "error"},
     mail_accepted : BOOLEAN]

\* DEFAULT_CONFIG in the fields of the model
DefaultConfigs ==
    {c \in SchedConfigs : /\ c.method = "selenium"
                          /\ c.browser = "chrome"
                          /\ c.max_retries = DefaultMaxRetries}

InitMain ==
    /\ main_in \in MainInputs
    /\ today \in IF main_in.test_email THEN 0..SUNDAY ELSE {0}
    /\ config \in IF main_in.config_file = "present"
                  THEN {c \in SchedConfigs : c.max_retries = DefaultMaxRetries}
                  ELSE DefaultConfigs
    /\ main_out = NotCalled
    /\ pass_in = IdleInput
    /\ pass_out = NoPass
    /\ page = NoPage
    /\ verdict = NoVerdict
    /\ SchedIdle
    /\ file = NoFile
    /\ next_check = 0
    /\ MailIdle
    /\ ConfIdle

Main ==
    /\ main_out = NotCalled
    /\ main_out' = main(main_in, config, today)
    /\ UNCHANGED <<today, config, schedVars, passVars, classVars, file,
                   next_check, main_in, mailVars, confVars>>

SpecMain == InitMain /\ [][Main]_vars

(***************************************************************************)
(* SpecMail: one call of send_email_notification.  An address is a         *)
(* sequence of characters; smtp is the history of what the function asked  *)
(* of smtplib: each connection it opened, each login and each message      *)
(* handed over, with the port of the connection.  The body of the message  *)
(* is left out: a message is its sender and its recipient.                 *)
(***************************************************************************)
PrimaryPort == 587

FallbackPort == 465

GmailDomain == <<"@", "g", "m", "a", "i", "l", ".", "c", "o", "m">>

\* f"{address}@gmail.com" if '@' not in address
WithDomain(address) ==
    IF \E i \in 1..Len(address) : address[i] = "@" THEN address
    ELSE address \o GmailDomain

Event(op, port, args) == [op |-> op, port |-> port, args |-> args]

\* from_addr and to_addr of the message
Message(email) ==
    IF email.from_address = <<>> \/ email.to_address = <<>>
    THEN <<WithDomain(email.username), WithDomain(email.username)>>
    ELSE <<WithDomain(email.from_address), WithDomain(email.to_address)>>

\* with smtplib.SMTP(server, port): ehlo, starttls, ehlo, login, sendmail.
\* bound tells whether the locals username and password were assigned
PrimaryAttempt(email, fault) ==
    LET connect == <<Event("connect", PrimaryPort, <<>>)>>
        login == <<Event("login", PrimaryPort,
                         <<WithDomain(email.username), email.password>>)>>
        sendmail == <<Event("sendmail", PrimaryPort, Message(email))>>
    IN CASE fault = "connect" ->
              [smtp |-> connect, raised |-> TRUE, bound |-> FALSE]
         [] fault = "starttls" ->
              [smtp |-> connect, raised |-> TRUE, bound |-> FALSE]
         [] fault = "login" ->
              [smtp |-> connect \o login, raised |-> TRUE, bound |-> TRUE]
         [] fault = "send" ->
              [smtp |-> connect \o login, raised |-> TRUE, bound |-> TRUE]
         [] OTHER ->
              [smtp |-> connect \o login \o sendmail, raised |-> FALSE,
               bound |-> TRUE]

\* with smtplib.SMTP_SSL(server, 465, context): login, sendmail, with the
\* locals username and password of the primary attempt: reading them where
\* that attempt did not assign them raises UnboundLocalError
FallbackAttempt(email, fault, bound) ==
    LET connect == <<Event("connect", FallbackPort, <<>>)>>
        login == <<Event("login", FallbackPort,
                         <<WithDomain(email.username), email.password>>)>>
        sendmail == <<Event("sendmail", FallbackPort, Message(email))>>
    IN CASE fault = "connect" -> [smtp |-> connect, raised |-> TRUE]
         [] ~bound -> [smtp |-> connect, raised |-> TRUE]
         [] fault = "login" -> [smtp |-> connect \o login, raised |-> TRUE]
         [] fault = "send" -> [smtp |-> connect \o login, raised |-> TRUE]
         [] OTHER -> [smtp |-> connect \o login \o sendmail, raised |-> FALSE]

\* the try statement of send_email_notification: nothing leaves it
Submit(email, inp) ==
    LET first == PrimaryAttempt(email, inp.primary) IN
    IF ~first.raised
    THEN [state |-> "returned", smtp |-> first.smtp, logged |-> "info"]
    ELSE LET second == FallbackAttempt(email, inp.fallback, first.bound)
         IN [state |-> "returned", smtp |-> first.smtp \o second.smtp,
             logged |-> IF second.raised THEN "error" ELSE "info"]

send_email_notification_any_credentials(cfg, inp) ==
    IF ~cfg.email.enabled \/ inp.available_dates = <<>>
    THEN [state |-> "returned", smtp |-> <<>>, logged |-> "info"]
    ELSE Submit(cfg.email, inp)

send_email_notification(cfg, inp) ==
    IF ~cfg.email.enabled
    THEN [state |-> "returned", smtp |-> <<>>, logged |-> "info"]
    ELSE IF inp.available_dates = <<>>
    THEN [state |-> "returned", smtp |-> <<>>, logged |-> "info"]
    ELSE IF cfg.email.username = <<>> \/ cfg.email.password = <<>>
    THEN [state |-> "returned", smtp |-> <<>>, logged |-> "error"]
    ELSE Submit(cfg.email, inp)

EmailConfigs ==
    [enabled : BOOLEAN,
     username : {<<>>, <<"u">>, <<"u", "@", "x">>},
     password : {<<>>, <<"p">>},
     from_address : {<<>>, <<"f">>},
     to_address : {<<>>, <<"t", "@", "x">>}]

MailConfigs == {c @@ [email |-> e] : c \in DefaultConfigs, e \in EmailConfigs}

MailInputs ==
    [available_dates : {<<>>, <<FRIDAY>>, <<FRIDAY, SATURDAY>>},
     primary : {"none", "connect", "starttls", "login", "send"},
     fallback : {"none", "connect", "login", "send"}]

InitMail ==
    /\ today = 0
    /\ config \in MailConfigs
    /\ mail_in \in MailInputs
    /\ mail_out = NotCalled
    /\ pass_in = IdleInput
    /\ pass_out = NoPass
    /\ page = NoPage
    /\ verdict = NoVerdict
    /\ SchedIdle
    /\ file = NoFile
    /\ next_check = 0
    /\ MainIdle
    /\ ConfIdle

SendEmailNotification ==
    /\ mail_out = NotCalled
    /\ mail_out' = send_email_notification(config, mail_in)
    /\ UNCHANGED <<today, config, schedVars, passVars, classVars, file,
                   next_check, mainVars, mail_in, confVars>>

SpecMail == InitMail /\ [][SendEmailNotification]_vars

(***************************************************************************)
(* SpecConfig: load_config and send_email_notification in one process,     *)
(* with the module's DEFAULT_CONFIG as state.  A dict is a function from   *)
(* its keys.  DEFAULT_CONFIG.copy() copies the top level only: a nested    *)
(* dict of the copy is the object DEFAULT_CONFIG holds, written Shared in  *)
(* the copy and read and written in DEFAULT_CONFIG.  config_json is the    *)
(* file at config_path: absent, not JSON, or an object.                    *)
(***************************************************************************)
Shared == [shared |-> TRUE]

\* a JSON value of the user's file that is not an object
NoDict == [dict |-> FALSE]

NestedKeys == {"email", "urls"}

\* dict.update
update(d, value) ==
    [k \in DOMAIN d \cup DOMAIN value |->
        IF k \in DOMAIN value THEN value[k] ELSE d[k]]

\* the loop over user_config.items(): a dict under a key whose value in the
\* copy is a dict is merged into that dict, any other value replaces the
\* copy's; the keys are all keys of DEFAULT_CONFIG
Merged(user_config, key) ==
    /\ key \in DOMAIN user_config
    /\ key \in NestedKeys
    /\ user_config[key] # NoDict

\* writable: the open of config_path for writing succeeds
load_config(defaults, path_file, writable) ==
    LET copy == [k \in DOMAIN defaults |->
                    IF k \in NestedKeys THEN Shared ELSE defaults[k]]
    IN CASE path_file.kind = "object" ->
              LET user_config == path_file.items
              IN [config |-> [k \in DOMAIN copy |->
                                 IF k \in DOMAIN user_config /\ ~Merged(user_config, k)
                                 THEN user_config[k] ELSE copy[k]],
                  defaults |-> [k \in DOMAIN defaults |->
                                   IF Merged(user_config, k)
                                   THEN update(defaults[k], user_config[k])
                                   ELSE defaults[k]],
                  file |-> path_file]
         [] path_file.kind = "invalid" ->
              [config |-> copy, defaults |-> defaults, file |-> path_file]
         [] OTHER ->
              [config |-> copy, defaults |-> defaults,
               file |-> IF writable
                        THEN [kind |-> "object", items |-> defaults]
                        ELSE path_file]

\* config["email"] as send_email_notification reads it
EmailOf(cfg, defaults) ==
    IF cfg.email = Shared THEN defaults.email ELSE cfg.email

\* the guards of send_email_notification passed
Notifies(email, inp) ==
    /\ email.enabled
    /\ inp.available_dates # <<>>
    /\ email.username # <<>>
    /\ email.password # <<>>

\* the assignments to config["email"] when an address is missing
AddressesSet(email) ==
    IF email.from_address = <<>> \/ email.to_address = <<>>
    THEN [email EXCEPT !.from_address = email.username,
                       !.to_address = email.username]
    ELSE email

UserEmails ==
    {update([username |-> <<"u">>], e) :
        e \in UNION {[keys -> {<<>>, <<"p">>}] :
                        keys \in SUBSET {"password", "from_address"}}}

UserFiles ==
    {[kind |-> "absent"], [kind |-> "invalid"]} \cup
    {[kind |-> "object", items |-> items] :
        items \in UNION {[keys -> {DefaultMaxRetries + 2}] :
                            keys \in SUBSET {"max_retries"}}
                  \cup {[email |-> e] : e \in UserEmails \cup {NoDict}}
                  \cup {[urls |-> [base_url |-> <<"x">>]]}}

ConfigMailInputs ==
    {inp \in MailInputs : inp.primary \in {"none", "connect"}
                          /\ inp.fallback = "none"}

InitConfig ==
    /\ today = 0
    /\ config = NotCalled
    /\ DEFAULT_CONFIG = Defaults
    /\ config_json \in UserFiles
    /\ pass_in = IdleInput
    /\ pass_out = NoPass
    /\ page = NoPage
    /\ verdict = NoVerdict
    /\ SchedIdle
    /\ file = NoFile
    /\ next_check = 0
    /\ MainIdle
    /\ MailIdle

\* the user replaces, repairs or removes the file between two calls
EditConfigFile ==
    /\ config # NotCalled
    /\ config_json' \in UserFiles \ {config_json}
    /\ UNCHANGED <<today, config, schedVars, passVars, classVars, file,
                   next_check, mainVars, mailVars, DEFAULT_CONFIG>>

LoadConfig ==
    /\ \E writable \in BOOLEAN :
       \E r \in {load_config(DEFAULT_CONFIG, config_json, writable)} :
          /\ config' = r.config
          /\ DEFAULT_CONFIG' = r.defaults
          /\ config_json' = r.file
    /\ UNCHANGED <<today, schedVars, passVars, classVars, file, next_check,
                   mainVars, mailVars>>

\* send_email_notification(config, ...) with the loaded configuration; with
\* an email value that is no dict the first guard raises TypeError
Notify ==
    /\ config # NotCalled
    /\ \E inp \in ConfigMailInputs :
       \E email \in {EmailOf(config, DEFAULT_CONFIG)} :
          /\ mail_in' = inp
          /\ IF email = NoDict
             THEN /\ mail_out' = [state |-> "raised", smtp |-> <<>>,
                                  logged |-> "none"]
                  /\ UNCHANGED DEFAULT_CONFIG
             ELSE /\ mail_out' = send_email_notification([email |-> email], inp)
                  /\ DEFAULT_CONFIG' =
                        IF Notifies(email, inp)
                        THEN [DEFAULT_CONFIG EXCEPT !.email = AddressesSet(email)]
                        ELSE DEFAULT_CONFIG
    /\ UNCHANGED <<today, config, schedVars, passVars, classVars, file,
                   next_check, mainVars, config_json>>

NextConfig == EditConfigFile \/ LoadConfig \/ Notify

SpecConfig == InitConfig /\ [][NextConfig]_vars

(***************************************************************************)
(* Claims about the scheduler (Spec).                                      *)
(***************************************************************************)
\* C1: a cycle that errors out after partial work (its probing pass was
\* aborted by an exception inside check_availability, or run_check used up
\* all its retries) does not overwrite the stored result: save_results of
\* such a cycle leaves last_results.json as it was.
C1_FailedCycleKeepsStoredResult ==
    [][(/\ pc = "save"
        /\ run_outcome \in {"aborted", "exhausted"}
        /\ last_results.exists)
          => last_results' = last_results]_vars

\* the dates of a list
DatesOf(list) == {list[i] : i \in DOMAIN list}

\* C2: in every cycle the dates handed to the notifier are the current
\* available dates minus the previous cycle's available dates, each once: no
\* date of the previous set is among them, and the notifier is not invoked
\* when the difference is empty.
C2_NotifierGetsSetDifference ==
    /\ \A k \in DOMAIN handed : handed[k].dates # <<>>
    /\ pc = "update" =>
          LET difference == {d \in DatesOf(available_dates) :
                                d \notin DatesOf(previous_available_dates)}
          IN IF difference = {}
             THEN handed = <<>>
             ELSE /\ Len(handed) = 1
                  /\ DatesOf(handed[1].dates) = difference
                  /\ Len(handed[1].dates) = Cardinality(difference)

\* C2 witness: the notifier was handed a date while another available date,
\* known from the previous cycle, was left out.
C2_Witness ==
    /\ pc = "update"
    /\ handed # <<>>
    /\ \E d \in DatesOf(available_dates) :
          /\ d \in DatesOf(previous_available_dates)
          /\ d \notin DatesOf(handed[1].dates)

\* C3: with max_retries = N >= 1 and a check_availability that raises on
\* every call, run_check makes exactly N attempts, sleeps retry_delay_seconds
\* between consecutive attempts (N - 1 pauses, none after the last), returns
\* ([], []) and the scheduler sends no notification in that cycle.
C3_ExhaustedRetries ==
    /\ pc \in {"attempt", "pause"} =>
          /\ attempts < config.max_retries
          /\ Len(slept) = IF pc = "pause" THEN attempts - 1 ELSE attempts
    /\ (pc = "save" /\ run_outcome = "exhausted") =>
          /\ attempts = config.max_retries
          /\ Len(slept) = config.max_retries - 1
          /\ available_dates = <<>>
          /\ consecutive_pairs = <<>>
    /\ pc \in {"attempt", "pause", "save"} =>
          \A k \in DOMAIN slept : slept[k] = config.retry_delay_seconds
    /\ run_outcome = "exhausted" => handed = <<>>

\* C3 witness: run_check has returned after three failed attempts and two
\* pauses, and the cycle has passed the notification step.
C3_Witness ==
    /\ pc = "update"
    /\ run_outcome = "exhausted"
    /\ config.max_retries = 3
    /\ handed = <<>>

(***************************************************************************)
(* Claims about the decision on one page (SpecClassify).                   *)
(***************************************************************************)
\* C4: a page with an explicit no-availability phrase is classified as
\* unavailable by the browser variant and by the HTTP variant, whatever
\* positive signal (price, book button, rate or room element) it also holds.
C4_NoAvailabilityPhraseWins ==
    page.text \cap {"No availability for your selected dates", "Sold Out"} # {}
        => /\ verdict.selenium # "available"
           /\ verdict.requests # "available"

\* C5: a page with a blocking or error phrase (action not allowed, access
\* denied, forbidden, error, unavailable, in any case) is classified as
\* unavailable by both variants, even when a price such as "$199" is present.
C5_ErrorPhraseWins ==
    page.text \cap {"Action Not Allowed", "Access Denied", "Server Error",
                    "Currently Unavailable", "403 Forbidden"} # {}
        => /\ verdict.selenium # "available"
           /\ verdict.requests # "available"

\* the page holds "$249 average/night" and no blocking, error or
\* no-availability phrase
PricedPage ==
    /\ "$249 average/night" \in page.text
    /\ page.text \cap {"Action Not Allowed", "Access Denied", "Server Error",
                       "Currently Unavailable", "403 Forbidden",
                       "No availability for your selected dates", "Sold Out"} = {}

\* C6 as stated: a page with "$249 average/night" and none of the negative
\* phrases is classified as available by each variant, whatever the current
\* URL, the page title or the results heading.
C6_PricedPageAvailable ==
    PricedPage => /\ verdict.selenium # "unavailable"
                  /\ verdict.requests # "unavailable"

\* the current URL is the results URL, a results element is present, the
\* title says results or availability, or the text says search results and
\* no search form shows
ResultsEvidence ==
    \/ page.url = ResultsUrl
    \/ \E e \in page.elems : e.tag = "div" /\ e.class = "results"
    \/ page.title \in {"Search Results", "Check Availability"}
    \/ "Search Results" \in page.text /\ "Check Availability" \notin page.text

\* the price elements were found, or a book button or a room element is there
PositiveElement ==
    \/ ~page.price_lookup_fails
    \/ \E e \in page.elems :
          \/ e.tag = "button" /\ e.string = "Book Now"
          \/ e.tag = "div" /\ e.class \in {"room-item", "lodging"}

\* C6: a page with "$249 average/night" and none of the negative phrases is
\* classified as available by the HTTP variant; the browser variant
\* classifies it as available exactly when the page also shows that it is a
\* results page and a positive element was found.
C6_PricedPageAvailableOnResultsPage ==
    PricedPage =>
        /\ verdict.requests # "unavailable"
        /\ verdict.selenium # "none" =>
              (verdict.selenium = "available" <=> ResultsEvidence /\ PositiveElement)

\* C6 witness: both variants classified a priced page, the browser variant
\* as available on the evidence of the page alone, the URL being the form's.
C6_Witness ==
    /\ PricedPage
    /\ page.url = BaseUrl
    /\ verdict.selenium = "available"
    /\ verdict.requests = "available"

\* C7: the browser variant and the HTTP variant implement the same decision
\* table: on the same page both return the same verdict.
C7_SameVerdict ==
    (verdict.selenium # "none" /\ verdict.requests # "none")
        => verdict.selenium = verdict.requests

(***************************************************************************)
(* Claims about one check_availability pass (SpecPass).                    *)
(***************************************************************************)
\* the pass got as far as calling get_weekend_dates and the call returned
HorizonComputed ==
    /\ pass_out.state # "idle"
    /\ pass_in.fault \notin {"setup", "horizon"}

\* C8: for every horizon H >= 0 and every today, get_weekend_dates(H)
\* returns exactly the dates of [today, today + 30*H] that are a Friday, a
\* Saturday or a Sunday, in strictly ascending order without duplicates.
C8_WeekendDatesExact ==
    HorizonComputed =>
        LET w == pass_out.weekend_dates
        IN /\ {w[i] : i \in DOMAIN w}
                 = {d \in today..(today + 30 * config.months_ahead) :
                        d % 7 \in {4, 5, 6}}
           /\ \A i, j \in DOMAIN w : i < j => w[i] < w[j]

\* C8 witness: a computed horizon of one month whose last day is a weekend
\* day, listed as the last date.
C8_Witness ==
    /\ HorizonComputed
    /\ config.months_ahead >= 1
    /\ Len(pass_out.weekend_dates) > 1
    /\ pass_out.weekend_dates[Len(pass_out.weekend_dates)]
           = today + 30 * config.months_ahead

\* C9: every pair probed by a pass of either class has check-out = check-in
\* + 1 day and a Friday or Saturday check-in; with check_friday_saturday
\* false no pair has a Friday check-in, with check_saturday_sunday false no
\* pair has a Saturday check-in.
C9_ProbedPairsAreEnabledWeekendNights ==
    \A k \in DOMAIN pass_out.probed :
        LET pair == pass_out.probed[k]
        IN /\ pair[2] = pair[1] + 1
           /\ pair[1] % 7 \in {4, 5}
           /\ pair[1] % 7 = 4 => config.check_friday_saturday
           /\ pair[1] % 7 = 5 => config.check_saturday_sunday

\* C9 witness: a pass with one pair type switched off that probed a pair of
\* the other type, after passing over a date of the type switched off.
C9_Witness ==
    /\ pass_out.state = "returned"
    /\ config.check_friday_saturday # config.check_saturday_sunday
    /\ pass_out.probed # <<>>
    /\ \E k \in DOMAIN pass_out.weekend_dates :
          /\ pass_out.weekend_dates[k] < pass_out.probed[1][1]
          /\ pass_out.weekend_dates[k] % 7 \in {4, 5}

\* C10: every Friday or Saturday of [today, today + 30*months_ahead] whose
\* pair type is enabled is probed as a check-in exactly once by a pass that
\* runs to its end, the last date of the sequence included.
C10_EveryEnabledCheckInProbedOnce ==
    (pass_out.state = "returned" /\ ~pass_out.aborted) =>
        \A d \in today..(today + 30 * config.months_ahead) :
            (\/ d % 7 = 4 /\ config.check_friday_saturday
             \/ d % 7 = 5 /\ config.check_saturday_sunday)
            => Cardinality({k \in DOMAIN pass_out.probed :
                               pass_out.probed[k] = <<d, d + 1>>}) = 1

C16_OneCycleOrForever ==
    /\ single_run => pc \notin {"sleep", "cooldown"}
    /\ (pc = "done" /\ run_outcome # "interrupted") =>
          /\ single_run
          /\ run_outcome \in {"completed", "aborted", "exhausted", "error"}
    /\ (single_run /\ pc = "update") => ENABLED (UpdatePrevious /\ pc' = "done")
    /\ ~single_run =>
          /\ pc = "update" => ENABLED (UpdatePrevious /\ pc' = "sleep")
          /\ pc = "sleep" => ENABLED (Sleep /\ pc' = "loop")
          /\ pc = "cooldown" => ENABLED (Cooldown /\ pc' = "loop")
          /\ pc = "loop" => ENABLED StartCycle
          /\ (pc = "loop" /\ config.max_retries <= 0) =>
                ENABLED (StartCycle /\ pc' = "cooldown")

\* C16 witness: the continuous scheduler is about to start another cycle
\* after a cycle whose retries were exhausted.
C16_Witness ==
    /\ ~single_run
    /\ pc = "loop"
    /\ run_outcome = "exhausted"

\* C17: with a browser selector other than chrome or firefox the error is
\* raised during browser setup and aborts the run: no date pair is probed,
\* no retry attempt is made, no result is stored and no further cycle is
\* scheduled.
C17_UnsupportedBrowserAbortsRun ==
    (config.method = "selenium" /\ config.browser \notin {"chrome", "firefox"}) =>
        /\ attempts <= 1
        /\ slept = <<>>
        /\ pc \notin {"pause", "compare", "update", "sleep"}

(***************************************************************************)
(* Claims about find_consecutive_days (SpecConsecutive).                   *)
(***************************************************************************)
\* C11: for every ascending list of dates find_consecutive_days returns
\* exactly, in order, the position-adjacent pairs (a[i], a[i+1]) that are one
\* day apart and are (Friday, Saturday) or (Saturday, Sunday); a Friday,
\* Saturday, Sunday run gives both pairs, fewer than two dates give none.
C11_AdjacentWeekendPairs ==
    pc = "found" =>
        LET a == available_dates
            found == consecutive_pairs
            expected == {i \in 1..(Len(a) - 1) :
                            /\ a[i + 1] - a[i] = 1
                            /\ \/ a[i] % 7 = 4 /\ a[i + 1] % 7 = 5
                               \/ a[i] % 7 = 5 /\ a[i + 1] % 7 = 6}
        IN /\ {found[k] : k \in DOMAIN found} = {<<a[i], a[i + 1]>> : i \in expected}
           /\ Len(found) = Cardinality(expected)
           /\ \A j, k \in DOMAIN found : j < k => found[j][1] < found[k][1]
           /\ Len(a) < 2 => found = <<>>
           /\ a = <<4, 5, 6>> => found = << <<4, 5>>, <<5, 6>> >>

\* C11 witness: a Friday, Saturday, Sunday run gave its two pairs.
C11_Witness ==
    /\ pc = "found"
    /\ available_dates = <<4, 5, 6>>
    /\ Len(consecutive_pairs) = 2

(***************************************************************************)
(* Claims about the result file (SpecStore).                               *)
(***************************************************************************)
\* a JSON string that is the ISO text of a date of the first weekend
IsDateText(j) == j.t = "string" /\ j.v \in {"2025-04-04", "2025-04-05", "2025-04-06"}

DayOfText(x) ==
    CASE x = "2025-04-04" -> 4
      [] x = "2025-04-05" -> 5
      [] x = "2025-04-06" -> 6

\* the values the file's object holds under a key: one, or none
KeyValues(key) ==
    {file.value.v[k][2] : k \in {i \in DOMAIN file.value.v : file.value.v[i][1] = key}}

IsObjectFile == file.kind = "json" /\ file.value.t = "object"

DateListOk(j) == j.t = "array" /\ \A k \in DOMAIN j.v : IsDateText(j.v[k])

PairListOk(j) ==
    /\ j.t = "array"
    /\ \A k \in DOMAIN j.v :
          /\ j.v[k].t = "array"
          /\ Len(j.v[k].v) = 2
          /\ IsDateText(j.v[k].v[1])
          /\ IsDateText(j.v[k].v[2])

\* the file is a JSON object whose lists, where present, have the shape
\* save_results writes
ShapeOk ==
    /\ IsObjectFile
    /\ \A j \in KeyValues("available_dates") : DateListOk(j)
    /\ \A j \in KeyValues("consecutive_pairs") : PairListOk(j)

\* C12 as stated: load_last_results never raises and returns the empty
\* result whenever the file is missing, unreadable or corrupt (invalid JSON,
\* wrong shape, invalid date strings).
C12_CorruptFileLoadsEmpty ==
    /\ pc # "load_raised"
    /\ (pc = "loaded" /\ ~ShapeOk) =>
          /\ previous_available_dates = <<>>
          /\ previous_consecutive_pairs = <<>>

\* a list value the list comprehension over the dates raises on
BadDateList(j) ==
    \/ j.t = "null"
    \/ j.t = "string" /\ j.v # ""
    \/ j.t = "array" /\ \E k \in DOMAIN j.v : ~IsDateText(j.v[k])

\* a list value the list comprehension over the pairs raises on
BadPairList(j) ==
    \/ j.t = "null"
    \/ j.t = "string" /\ j.v # ""
    \/ j.t = "array" /\ \E k \in DOMAIN j.v :
          \/ j.v[k].t \in {"null", "string"}
          \/ j.v[k].t = "array" /\ Len(j.v[k].v) # 2
          \/ j.v[k].t = "array" /\ \E i \in DOMAIN j.v[k].v : ~IsDateText(j.v[k].v[i])

\* C12: load_last_results never raises.  It returns the empty result when
\* the file is missing, unreadable, not valid JSON or not a JSON object, and
\* when reading either list raises (the value is null or a text, an element
\* is not the ISO text of a date, a pair has not two elements); a file of
\* the shape save_results writes is returned as stored, an absent key being
\* read as an empty list.
C12_LoadNeverRaises ==
    /\ pc # "load_raised"
    /\ pc = "loaded" =>
          /\ (\/ file.kind \in {"missing", "unreadable", "invalid_json"}
              \/ ~IsObjectFile
              \/ \E j \in KeyValues("available_dates") : BadDateList(j)
              \/ \E j \in KeyValues("consecutive_pairs") : BadPairList(j))
             => /\ previous_available_dates = <<>>
                /\ previous_consecutive_pairs = <<>>
          /\ ShapeOk =>
                /\ \A j \in KeyValues("available_dates") :
                      previous_available_dates = [k \in DOMAIN j.v |-> DayOfText(j.v[k].v)]
                /\ \A j \in KeyValues("consecutive_pairs") :
                      previous_consecutive_pairs =
                          [k \in DOMAIN j.v |-> <<DayOfText(j.v[k].v[1].v),
                                                  DayOfText(j.v[k].v[2].v)>>]
                /\ KeyValues("available_dates") = {} => previous_available_dates = <<>>
                /\ KeyValues("consecutive_pairs") = {} => previous_consecutive_pairs = <<>>

\* C12 witness: a file whose pair list holds a pair of three dates was
\* loaded as the empty result although its date list is sound.
C12_Witness ==
    /\ pc = "loaded"
    /\ IsObjectFile
    /\ \E j \in KeyValues("available_dates") : DateListOk(j) /\ j.v # <<>>
    /\ \E j \in KeyValues("consecutive_pairs") :
          j.t = "array" /\ \E k \in DOMAIN j.v : Len(j.v[k].v) = 3
    /\ previous_available_dates = <<>>

\* C13: for every list of dates and of pairs, a successful save_results
\* followed by load_last_results returns the same dates and the same pairs,
\* whatever the file held before.
C13_SaveLoadRoundTrip ==
    pc = "reloaded" =>
        /\ previous_available_dates = available_dates
        /\ previous_consecutive_pairs = consecutive_pairs

\* C13 witness: two dates in descending order and a pair came back from the
\* file.
C13_Witness ==
    /\ pc = "reloaded"
    /\ available_dates = <<5, 4>>
    /\ consecutive_pairs = << <<4, 5>> >>
    /\ previous_available_dates = <<5, 4>>

(***************************************************************************)
(* Claims about calculate_next_check_time (SpecTimer).  base and the       *)
(* variation are in tenths of a second, the delay in seconds.              *)
(***************************************************************************)
\* base * (1 - v/100), in tenths of a second
LowestDraw ==
    config.check_interval_hours * 36000
        - config.check_interval_hours * 36 * config.interval_variation_percent

\* base * (1 + v/100), in tenths of a second
HighestDraw ==
    config.check_interval_hours * 36000
        + config.check_interval_hours * 36 * config.interval_variation_percent

\* C14 as stated: the delay is at least 1800 seconds and lies within
\* [max(1800, base*(1 - v/100)), max(1800, base*(1 + v/100))]; for 3 hours
\* and 20 percent it lies in [8640, 12960].
C14_DelayWithinInterval ==
    next_check # 0 =>
        /\ next_check >= 1800
        /\ next_check * 10 >= LowestDraw
        /\ next_check * 10 <= (IF HighestDraw > 18000 THEN HighestDraw ELSE 18000)
        /\ (config.check_interval_hours = 3 /\ config.interval_variation_percent = 200)
              => next_check \in 8640..12960

\* C14: the delay is a whole number of seconds, at least 1800, above
\* max(1800, base*(1 - v/100)) - 1 and at most max(1800, base*(1 + v/100)):
\* the draw is cut to whole seconds, so the delay may fall short of a lower
\* end that is not a whole second by less than one second; for 3 hours and
\* 20 percent it lies in [8640, 12960].
C14_DelayWithinIntervalCutToSeconds ==
    next_check # 0 =>
        /\ next_check >= 1800
        /\ next_check * 10 > LowestDraw - 10
        /\ next_check * 10 <= (IF HighestDraw > 18000 THEN HighestDraw ELSE 18000)
        /\ (config.check_interval_hours = 3 /\ config.interval_variation_percent = 200)
              => next_check \in 8640..12960

\* C14 witness: with one hour and 33.3 percent the lowest draw, 2401.2
\* seconds, was cut to 2401 seconds.
C14_Witness ==
    /\ config.check_interval_hours = 1
    /\ config.interval_variation_percent = 333
    /\ LowestDraw = 24012
    /\ next_check = 2401

(***************************************************************************)
(* Claims about main and check_specific_date (SpecMain).                   *)
(***************************************************************************)
\* a month, a day and a year of four digits that name a day of the calendar
ValidDateArg(date_str) ==
    LET fields == split(date_str) IN
    /\ Len(fields) = 3
    /\ \A i \in 1..3 : ~IntRaises(fields[i])
    /\ Len(fields[1]) \in 1..2
    /\ Len(fields[2]) \in 1..2
    /\ Len(fields[3]) = 4
    /\ ~DateRaises(IntLoop(fields[3], 1, 0), IntLoop(fields[1], 1, 0),
                   IntLoop(fields[2], 1, 0))

\* C18: when --date is given a text that is not a valid MM-DD-YYYY date,
\* main exits without side effects: no browser session, no page requested,
\* no email, no configuration or result file written, no monitoring run.
C18_InvalidDateNoSideEffects ==
    (/\ main_out # NotCalled
     /\ main_in.date # NoDate
     /\ ~ValidDateArg(main_in.date))
        => /\ main_out.state = "exited"
           /\ main_out.effects = <<>>

\* C26: every consecutive pair handed to the notifier by the single-date
\* check or by --test-email has members one day apart that are a Friday and
\* a Saturday or a Saturday and a Sunday.
C26_HandedPairsAreWeekendPairs ==
    main_out # NotCalled =>
        \A k \in DOMAIN main_out.handed :
            \A n \in DOMAIN main_out.handed[k].pairs :
                LET pair == main_out.handed[k].pairs[n]
                IN /\ pair[2] = pair[1] + 1
                   /\ \/ pair[1] % 7 = 4 /\ pair[2] % 7 = 5
                      \/ pair[1] % 7 = 5 /\ pair[2] % 7 = 6

(***************************************************************************)
(* Claims about send_email_notification (SpecMail).                        *)
(***************************************************************************)
\* C19: send_email_notification opens no SMTP connection and returns
\* without raising when email.enabled is false, when the list of dates is
\* empty, or when the username or the password is missing.
C19_NoConnectionWithoutNeed ==
    (/\ mail_out # NotCalled
     /\ \/ ~config.email.enabled
        \/ mail_in.available_dates = <<>>
        \/ config.email.username = <<>>
        \/ config.email.password = <<>>)
        => /\ mail_out.state = "returned"
           /\ mail_out.smtp = <<>>

\* enabled, dates to report, a username, and only the password missing
C19_Witness ==
    /\ mail_out # NotCalled
    /\ config.email.enabled
    /\ mail_in.available_dates # <<>>
    /\ config.email.username # <<>>
    /\ config.email.password = <<>>
    /\ mail_out.smtp = <<>>

\* C20: when the submission on the primary port fails at any step
\* (connect, STARTTLS, login or send), a second attempt is made over direct
\* TLS on port 465 with the same credentials and the same message, and the
\* message is handed over whenever that server accepts the login and the
\* message; when both attempts fail the function returns without raising.
C20_FallbackAfterAnyPrimaryFailure ==
    (/\ mail_out # NotCalled
     /\ config.email.enabled
     /\ mail_in.available_dates # <<>>
     /\ config.email.username # <<>>
     /\ config.email.password # <<>>
     /\ mail_in.primary # "none")
        => /\ mail_out.state = "returned"
           /\ \E i \in 1..Len(mail_out.smtp) :
                 mail_out.smtp[i] = Event("connect", FallbackPort, <<>>)
           /\ mail_in.fallback # "connect"
                 => \E i \in 1..Len(mail_out.smtp) :
                       mail_out.smtp[i] =
                           Event("login", FallbackPort,
                                 <<WithDomain(config.email.username),
                                   config.email.password>>)
           /\ mail_in.fallback = "none"
                 => \E i \in 1..Len(mail_out.smtp) :
                       mail_out.smtp[i] =
                           Event("sendmail", FallbackPort,
                                 Message(config.email))

(***************************************************************************)
(* Further claims about the scheduler (Spec).                              *)
(***************************************************************************)
\* C21: within a cycle the result is persisted only after the diff and the
\* notification step: whenever last_results.json changes, the scheduler
\* stands past the notification of that cycle.
C21_PersistAfterNotify ==
    [][last_results' # last_results => pc = "update"]_vars

\* C24: in continuous mode the scheduler has slept whenever it starts a
\* cycle after another one: at least 1800 seconds after a cycle that
\* completed, exactly 900 seconds after an unexpected error escaped the
\* cycle; a cycle never follows another without a sleep.
C24_SleepBetweenCycles ==
    /\ (pc = "loop" /\ run_outcome # "none") =>
          /\ ~single_run
          /\ Len(slept) = 1
          /\ run_outcome = "error" => slept[1] = 900
          /\ run_outcome # "error" => slept[1] >= 1800
    /\ pc \in {"sleep", "cooldown"} => ~ENABLED StartCycle

\* C24 witness: the continuous scheduler, back at the top of its loop after
\* the 900 seconds that followed an unexpected error.
C24_Witness ==
    /\ ~single_run
    /\ pc = "loop"
    /\ run_outcome = "error"
    /\ slept = <<900>>


\* C25: the new consecutive pairs of a cycle are find_consecutive_days of
\* the ascending list of the new dates, whatever the order in which the
\* difference is listed: (d, d + 1) is among them exactly when it is a
\* weekend pair and both dates are new.
C25_NewPairsOfSortedDifference ==
    pc = "update" =>
        /\ new_consecutive = find_consecutive_days(Sorted(DatesOf(new_dates)))
        /\ \A k \in DOMAIN handed :
              handed[k].pairs = find_consecutive_days(Sorted(DatesOf(handed[k].dates)))

\* C27: a failed cycle keeps the baseline of the comparison: when run_check
\* used up its retries, or the probing pass was cut short by an error, the
\* previous available dates after the cycle are those before it.
C27_FailedCycleKeepsBaseline ==
    [][(/\ pc = "update"
        /\ run_outcome \in {"exhausted", "aborted"}
        /\ pc' = "sleep")
          => previous_available_dates' = previous_available_dates]_vars

\* C28: run_check always returns a pair, whatever max_retries is, so that the
\* unpacking in the scheduler never fails: no cycle ends in the handler of
\* unexpected errors.  In the scheduler that handler runs only for the
\* TypeError of unpacking run_check's result.
C28_RunCheckReturnsPair == run_outcome # "error"

\* C29: every date of the list run_check returned for a cycle is a check-in
\* date the pass probes, a Friday or a Saturday and never a Sunday; so every
\* pair find_consecutive_days computes for the cycle is a Friday with the
\* Saturday after it.
C29_CycleResultsAreFridaysAndSaturdays ==
    /\ \A k \in DOMAIN available_dates :
          /\ weekday(available_dates[k]) \in {FRIDAY, SATURDAY}
          /\ available_dates[k] \in
                SeqToSet(CheckIns(get_weekend_dates(today, config.months_ahead),
                                  config, 1))
    /\ \A k \in DOMAIN consecutive_pairs :
          /\ weekday(consecutive_pairs[k][1]) = FRIDAY
          /\ weekday(consecutive_pairs[k][2]) = SATURDAY
          /\ consecutive_pairs[k][2] = consecutive_pairs[k][1] + 1

\* C29 witness: on a Sunday, itself a weekend date the pass does not probe,
\* a completed cycle found the next Friday and Saturday and their pair.
C29_Witness ==
    /\ today = SUNDAY
    /\ pc = "update"
    /\ run_outcome = "completed"
    /\ Len(available_dates) = 2
    /\ Len(consecutive_pairs) = 1

(***************************************************************************)
(* Further claims about one check_availability pass (SpecPass).            *)
(***************************************************************************)
\* C22: whenever check_availability of the Selenium checker has returned or
\* raised, the browser has been quit and self.browser is None.
C22_BrowserReleasedAfterPass ==
    (config.method = "selenium" /\ pass_out.state # "idle")
        => pass_out.browser = "None"

\* C23: an exception raised while one date pair is probed is caught for
\* that pair only: its check-in date is not in the result, every candidate
\* pair of the pass is still probed, and the pass returns unaborted.
C23_ProbeErrorSkipsOnePair ==
    (/\ pass_out.state # "idle"
     /\ pass_in.abortAt = 0
     /\ pass_in.fault = "none")
        => /\ pass_out.state = "returned"
           /\ ~pass_out.aborted
           /\ [k \in DOMAIN pass_out.probed |-> pass_out.probed[k][1]]
                  = CheckIns(pass_out.weekend_dates, config, 1)
           /\ \A d \in DOMAIN pass_in.fetch :
                 pass_in.fetch[d].raises =>
                    /\ \A k \in DOMAIN pass_out.dates : pass_out.dates[k] # d
                    /\ \E k \in DOMAIN pass_out.failed : pass_out.failed[k] = d

\* C23 witness: the probe of the first pair raised and the check-in date of
\* a later pair was found available.
C23_Witness ==
    /\ pass_out.state = "returned"
    /\ pass_out.failed # <<>>
    /\ pass_out.dates # <<>>
    /\ pass_out.failed[1] = pass_out.probed[1][1]
    /\ pass_out.failed[1] < pass_out.dates[1]


(***************************************************************************)
(* Claims about load_config (SpecConfig).                                  *)
(***************************************************************************)
\* C30: load_config leaves DEFAULT_CONFIG as the module defined it: after
\* any load_config calls with user files that override nested email or urls
\* keys, and notifications sent with the returned configuration, every
\* top-level and every nested value of DEFAULT_CONFIG is its initial value.
C30_DefaultConfigUnchanged == DEFAULT_CONFIG = Defaults

====
